---------------------------- MODULE Spec2Model ----------------------------
(***************************************************************************)
(* Seat-checker: the stats route (POST / DELETE of one event), the seat    *)
(* history and stats-history stores, and the override merger of the page.  *)
(*                                                                         *)
(* Strings are sequences of one-character strings, so that split, trim,    *)
(* case conversion and concatenation are computed as the code computes     *)
(* them.  A history key "Sector:row-seat" is the sequence                  *)
(* sectorName \o <<":">> \o normalizeSeatKey(seatKey).                     *)
(***************************************************************************)
EXTENDS Integers, Sequences, FiniteSets, TLC

(***************************************************************************)
(* String helpers (JavaScript String.prototype semantics).                 *)
(***************************************************************************)
LowerLetters ==
  << "a","b","c","d","e","f","g","h","i","j","k","l","m",
     "n","o","p","q","r","s","t","u","v","w","x","y","z" >>

UpperLetters ==
  << "A","B","C","D","E","F","G","H","I","J","K","L","M",
     "N","O","P","Q","R","S","T","U","V","W","X","Y","Z" >>

Digits == << "0","1","2","3","4","5","6","7","8","9" >>

WhiteSpace == { " " }

Range(s) == { s[i] : i \in DOMAIN s }

UpperChar(c) ==
  IF \E i \in DOMAIN LowerLetters : LowerLetters[i] = c
  THEN UpperLetters[CHOOSE i \in DOMAIN LowerLetters : LowerLetters[i] = c]
  ELSE c

LowerChar(c) ==
  IF \E i \in DOMAIN UpperLetters : UpperLetters[i] = c
  THEN LowerLetters[CHOOSE i \in DOMAIN UpperLetters : UpperLetters[i] = c]
  ELSE c

toUpperCase(s) == [i \in DOMAIN s |-> UpperChar(s[i])]

toLowerCase(s) == [i \in DOMAIN s |-> LowerChar(s[i])]

\* String.prototype.trim: drop leading and trailing white space.
trim(s) ==
  LET keep == { i \in DOMAIN s : s[i] \notin WhiteSpace }
  IN  IF keep = {} THEN << >>
      ELSE LET lo == CHOOSE i \in keep : \A j \in keep : i <= j
               hi == CHOOSE i \in keep : \A j \in keep : j <= i
           IN  SubSeq(s, lo, hi)

\* String.prototype.split(sep) for a one-character separator: the pieces
\* between the occurrences of sep, in order (one piece when sep is absent).
RECURSIVE split(_, _)
split(s, sep) ==
  IF \A i \in DOMAIN s : s[i] # sep
  THEN << s >>
  ELSE LET p == CHOOSE i \in DOMAIN s :
                  s[i] = sep /\ \A j \in 1..(i - 1) : s[j] # sep
       IN  << SubSeq(s, 1, p - 1) >> \o split(SubSeq(s, p + 1, Len(s)), sep)

\* Array.prototype.join(sep).
RECURSIVE join(_, _)
join(parts, sep) ==
  IF Len(parts) = 0 THEN << >>
  ELSE IF Len(parts) = 1 THEN parts[1]
  ELSE parts[1] \o << sep >> \o join(Tail(parts), sep)

\* String(n) for a non-negative integer: its decimal digits.
RECURSIVE String(_)
String(n) ==
  IF n < 10 THEN << Digits[n + 1] >>
  ELSE String(n \div 10) \o << Digits[(n % 10) + 1] >>

(***************************************************************************)
(* Row and seat-key normalization of the stats route.                      *)
(***************************************************************************)
\* ROMAN_MAP: the numeral at index n is the key whose value is n.
ROMAN_KEYS ==
  << <<"I">>, <<"I","I">>, <<"I","I","I">>, <<"I","V">>, <<"V">>,
     <<"V","I">>, <<"V","I","I">>, <<"V","I","I","I">>, <<"I","X">>, <<"X">>,
     <<"X","I">>, <<"X","I","I">>, <<"X","I","I","I">>, <<"X","I","V">>,
     <<"X","V">>,
     <<"X","V","I">>, <<"X","V","I","I">>, <<"X","V","I","I","I">>,
     <<"X","I","X">>, <<"X","X">>,
     <<"X","X","I">>, <<"X","X","I","I">>, <<"X","X","I","I","I">>,
     <<"X","X","I","V">>, <<"X","X","V">>,
     <<"X","X","V","I">>, <<"X","X","V","I","I">>,
     <<"X","X","V","I","I","I">>, <<"X","X","I","X">>, <<"X","X","X">> >>

InRomanMap(s) == \E n \in DOMAIN ROMAN_KEYS : ROMAN_KEYS[n] = s

ROMAN_MAP(s) == CHOOSE n \in DOMAIN ROMAN_KEYS : ROMAN_KEYS[n] = s

RomanLetters == { "I", "V", "X", "L", "C" }

\* trimmed.match(/(\d+|[IVXLC]+)$/): the leftmost start from which the rest
\* of the string is all digits, or all Roman letters; 0 when nothing matches.
TrailingNumeralStart(s) ==
  LET starts == { i \in DOMAIN s :
                    \/ \A j \in i..Len(s) : s[j] \in Range(Digits)
                    \/ \A j \in i..Len(s) : s[j] \in RomanLetters }
  IN  IF starts = {} THEN 0
      ELSE CHOOSE i \in starts : \A j \in starts : i <= j

\* A normalizer that reads an Arabic numeral as a number: "05" gives "5".
normalizeRowName_Numeric(row) ==
  LET trimmed == toUpperCase(trim(row))
      Value(numPart) ==
        LET keep == { i \in DOMAIN numPart :
                        i = Len(numPart) \/ numPart[i] # "0" }
            first == CHOOSE i \in keep : \A j \in keep : i <= j
        IN  SubSeq(numPart, first, Len(numPart))
  IN  IF InRomanMap(trimmed) THEN String(ROMAN_MAP(trimmed))
      ELSE LET m == TrailingNumeralStart(trimmed)
           IN  IF m # 0
               THEN LET numPart == SubSeq(trimmed, m, Len(trimmed))
                    IN  IF InRomanMap(numPart)
                        THEN String(ROMAN_MAP(numPart))
                        ELSE IF numPart[1] \in Range(Digits)
                             THEN Value(numPart)
                             ELSE numPart
               ELSE toLowerCase(trimmed)

normalizeRowName(row) ==
  LET trimmed == toUpperCase(trim(row))
  IN  IF InRomanMap(trimmed) THEN String(ROMAN_MAP(trimmed))
      ELSE LET m == TrailingNumeralStart(trimmed)
           IN  IF m # 0
               THEN LET numPart == SubSeq(trimmed, m, Len(trimmed))
                    IN  IF InRomanMap(numPart)
                        THEN String(ROMAN_MAP(numPart))
                        ELSE numPart
               ELSE toLowerCase(trimmed)

\* A key normalizer that normalizes the seat label as it does the row.
normalizeSeatKey_BothParts(seatKey) ==
  LET parts == split(seatKey, "-")
  IN  IF Len(parts) >= 2
      THEN normalizeRowName(parts[1]) \o << "-" >>
             \o normalizeRowName(join(Tail(parts), "-"))
      ELSE seatKey

normalizeSeatKey(seatKey) ==
  LET parts == split(seatKey, "-")
  IN  IF Len(parts) >= 2
      THEN normalizeRowName(parts[1]) \o << "-" >> \o join(Tail(parts), "-")
      ELSE seatKey

\* normalizeRowName of the page: a label that is a Roman numeral as a whole
\* becomes its value, any other label is trimmed and nothing else.
pageNormalizeRowName(row) ==
  LET upperRow == trim(toUpperCase(row))
  IN  IF InRomanMap(upperRow) THEN String(ROMAN_MAP(upperRow))
      ELSE trim(row)

\* normalizeSeatKey of the page.
pageNormalizeSeatKey(seatKey) ==
  LET parts == split(seatKey, "-")
  IN  IF Len(parts) >= 2
      THEN pageNormalizeRowName(parts[1]) \o << "-" >>
             \o join(Tail(parts), "-")
      ELSE seatKey

\* `${row}-${seat}`
BuildSeatKey(row, seat) == row \o << "-" >> \o seat

\* A key read back: parts[0] is the row, parts.slice(1).join('-') the seat.
ParseSeatKey(seatKey) ==
  LET parts == split(seatKey, "-")
  IN  [ row |-> parts[1], seat |-> join(Tail(parts), "-") ]

(***************************************************************************)
(* Per-vendor processing of the raw scrape data into SourceStats.          *)
(*                                                                         *)
(* A raw seat is [rn, n, free]: the row label, the seat label and whether  *)
(* the vendor shows it free.  A row table maps each row label of a seat    *)
(* list to [total, free, taken].  null results are NullStats.              *)
(***************************************************************************)
NullStats == [isNull |-> TRUE]

SeatKeyOf(seat) == seat.rn \o << "-" >> \o seat.n

\* The seats of a list that pass a filter, in order.
RECURSIVE SelectSeats(_, _)
SelectSeats(seats, wantFree) ==
  IF Len(seats) = 0 THEN << >>
  ELSE (IF seats[1].free = wantFree THEN << SeatKeyOf(seats[1]) >> ELSE << >>)
       \o SelectSeats(Tail(seats), wantFree)

RowTable(seats) ==
  [ r \in { seats[i].rn : i \in DOMAIN seats } |->
      [ total |-> Cardinality({ i \in DOMAIN seats : seats[i].rn = r }),
        free  |-> Cardinality({ i \in DOMAIN seats :
                                  seats[i].rn = r /\ seats[i].free }),
        taken |-> Cardinality({ i \in DOMAIN seats :
                                  seats[i].rn = r /\ ~seats[i].free }) ] ]

Totals(freeSeats, takenSeats) ==
  [ total |-> Len(freeSeats) + Len(takenSeats),
    free  |-> Len(freeSeats),
    taken |-> Len(takenSeats) ]

\* Row tables added up row by row (the globalRowsData maps).
MergeRows(a, b) ==
  [ r \in (DOMAIN a) \cup (DOMAIN b) |->
      IF r \in DOMAIN a /\ r \in DOMAIN b
      THEN [ total |-> a[r].total + b[r].total,
             free  |-> a[r].free + b[r].free,
             taken |-> a[r].taken + b[r].taken ]
      ELSE IF r \in DOMAIN a THEN a[r] ELSE b[r] ]

\* Biletyna status codes: "10" free, "90" a blank spacer, anything else taken.
STATUS_FREE == << "1", "0" >>

STATUS_BLANK == << "9", "0" >>

\* One Biletyna sector page: places are [row_number, place_number,
\* place_status]; places without seat data and blank spacers are skipped.
RECURSIVE BiletynaPlaces(_)
BiletynaPlaces(places) ==
  IF Len(places) = 0 THEN << >>
  ELSE LET p == places[1]
       IN  (IF \/ Len(p.row_number) = 0
               \/ Len(p.place_number) = 0
               \/ Len(p.place_status) = 0
               \/ p.place_status = STATUS_BLANK
            THEN << >>
            ELSE << [ rn |-> p.row_number, n |-> p.place_number,
                      free |-> (p.place_status = STATUS_FREE) ] >>)
           \o BiletynaPlaces(Tail(places))

parseBiletynaSectorSeats(html) ==
  LET seats == BiletynaPlaces(html)
  IN  IF Len(seats) = 0 THEN NullStats
      ELSE [ isNull |-> FALSE,
             rows |-> RowTable(seats),
             freeSeats |-> SelectSeats(seats, TRUE),
             takenSeats |-> SelectSeats(seats, FALSE) ]

parseBiletynaSeats(html) ==
  LET result == parseBiletynaSectorSeats(html)
  IN  IF result.isNull THEN NullStats
      ELSE [ isNull |-> FALSE,
             source |-> "biletyna",
             totals |-> Totals(result.freeSeats, result.takenSeats),
             rows |-> result.rows,
             freeSeats |-> result.freeSeats,
             takenSeats |-> result.takenSeats,
             hasSectors |-> FALSE,
             sectors |-> << >> ]

(***************************************************************************)
(* matchSectorByStructure.  Scores are kept as exact fractions             *)
(* [num, den]: the code adds three quotients, each over its own maximum.   *)
(***************************************************************************)
Max2(a, b) == IF a >= b THEN a ELSE b

Abs(a) == IF a >= 0 THEN a ELSE 0 - a

RowTotal(rows) ==
  LET RECURSIVE Sum(_)
      Sum(S) == IF S = {} THEN 0
                ELSE LET r == CHOOSE x \in S : TRUE
                     IN  rows[r].total + Sum(S \ {r})
  IN  Sum(DOMAIN rows)

\* A filter that lets a gap of up to half the larger count through.
RowCountFilterSkips_Half(ebiletRowCount, kbRowCount) ==
  10 * Abs(ebiletRowCount - kbRowCount)
     > 5 * Max2(Max2(ebiletRowCount, kbRowCount), 1)

\* The hard filter: rowCountDiff > 0.3.
RowCountFilterSkips(ebiletRowCount, kbRowCount) ==
  10 * Abs(ebiletRowCount - kbRowCount)
     > 3 * Max2(Max2(ebiletRowCount, kbRowCount), 1)

\* The score of one candidate as a fraction num/den.
SectorScore(ebiletRows, sector) ==
  LET ebiletRowCount == Cardinality(DOMAIN ebiletRows)
      ebiletTotalSeats == RowTotal(ebiletRows)
      normalizedEbiletRows == { normalizeRowName(r) : r \in DOMAIN ebiletRows }
      kbRowCount == Cardinality(DOMAIN sector.rows)
      kbTotalSeats == sector.totals.total
      m1 == Max2(Max2(ebiletRowCount, kbRowCount), 1)
      m2 == Max2(Max2(ebiletTotalSeats, kbTotalSeats), 1)
      m3 == Max2(ebiletRowCount, 1)
      \* row count: 30, or max(0, 30 - rowCountDiff * 100), over m1
      s1 == IF ebiletRowCount = kbRowCount THEN 30 * m1
            ELSE Max2(0, 30 * m1 - 100 * Abs(ebiletRowCount - kbRowCount))
      \* seat count: 30, or max(0, 30 - seatDiffPercent * 150), over m2
      s2 == IF ebiletTotalSeats = kbTotalSeats THEN 30 * m2
            ELSE Max2(0, 30 * m2 - 150 * Abs(ebiletTotalSeats - kbTotalSeats))
      normalizedKbRows == { normalizeRowName(r) : r \in DOMAIN sector.rows }
      matchingRowNames ==
        Cardinality(normalizedEbiletRows \cap normalizedKbRows)
      \* row names: rowNameMatchRatio * 40, over m3
      s3 == 40 * matchingRowNames
  IN  [ num |-> s1 * m2 * m3 + s2 * m1 * m3 + s3 * m1 * m2,
        den |-> m1 * m2 * m3 ]

\* A comparison that lets a later candidate of equal score take over.
ScoreGreater_OrEqual(a, b) == a.num * b.den >= b.num * a.den

ScoreGreater(a, b) == a.num * b.den > b.num * a.den

ScoreAtLeast(a, n) == a.num >= n * a.den

MATCH_THRESHOLD == 50

\* The scan over the canonical sectors: best is the index of bestMatch
\* (0 for null) and bestScore its score.
RECURSIVE MatchScan(_, _, _, _, _, _)
MatchScan(ebiletRows, kupbilecikSectors, matchedSectors, i, best, bestScore) ==
  IF i > Len(kupbilecikSectors) THEN [ best |-> best, bestScore |-> bestScore ]
  ELSE LET sector == kupbilecikSectors[i]
           skip == \/ sector.sectorName \in matchedSectors
                   \/ RowCountFilterSkips(Cardinality(DOMAIN ebiletRows),
                                          Cardinality(DOMAIN sector.rows))
           score == SectorScore(ebiletRows, sector)
       IN  IF ~skip /\ ScoreGreater(score, bestScore)
           THEN MatchScan(ebiletRows, kupbilecikSectors, matchedSectors,
                          i + 1, i, score)
           ELSE MatchScan(ebiletRows, kupbilecikSectors, matchedSectors,
                          i + 1, best, bestScore)

\* A match that does not mark the returned sector as matched.
matchSectorByStructure_NoClaim(ebiletRows, kupbilecikSectors, matchedSectors) ==
  LET r == MatchScan(ebiletRows, kupbilecikSectors, matchedSectors, 1, 0,
                     [ num |-> 0, den |-> 1 ])
  IN  IF ScoreAtLeast(r.bestScore, MATCH_THRESHOLD) /\ r.best # 0
      THEN [ matched |-> TRUE,
             sectorName |-> kupbilecikSectors[r.best].sectorName,
             matchedSectors |-> matchedSectors ]
      ELSE [ matched |-> FALSE,
             sectorName |-> << >>,
             matchedSectors |-> matchedSectors ]

\* Returns [matched, sectorName, matchedSectors]: whether a canonical sector
\* was returned, its name, and the set of claimed names after the call.
matchSectorByStructure(ebiletRows, kupbilecikSectors, matchedSectors) ==
  LET r == MatchScan(ebiletRows, kupbilecikSectors, matchedSectors, 1, 0,
                     [ num |-> 0, den |-> 1 ])
  IN  IF ScoreAtLeast(r.bestScore, MATCH_THRESHOLD) /\ r.best # 0
      THEN [ matched |-> TRUE,
             sectorName |-> kupbilecikSectors[r.best].sectorName,
             matchedSectors |->
               matchedSectors \cup { kupbilecikSectors[r.best].sectorName } ]
      ELSE [ matched |-> FALSE,
             sectorName |-> << >>,
             matchedSectors |-> matchedSectors ]

(***************************************************************************)
(* combineBiletynaSectors, processEbiletAllSectors, processKupbilecikData. *)
(* kupbilecikSectors is [defined, list]: results.kupbilecik?.sectors.      *)
(***************************************************************************)
SektorPrefix == << "S", "e", "k", "t", "o", "r", " " >>

\* `Sektor ${n}`
SektorLabel(n) == SektorPrefix \o String(n)

MakeSector(sectorName, rows, freeSeats, takenSeats) ==
  [ sectorName |-> sectorName,
    rows |-> rows,
    freeSeats |-> freeSeats,
    takenSeats |-> takenSeats,
    totals |-> Totals(freeSeats, takenSeats) ]

RECURSIVE ConcatFree(_)
ConcatFree(list) ==
  IF Len(list) = 0 THEN << >> ELSE list[1].freeSeats \o ConcatFree(Tail(list))

RECURSIVE ConcatTaken(_)
ConcatTaken(list) ==
  IF Len(list) = 0 THEN << >> ELSE list[1].takenSeats \o ConcatTaken(Tail(list))

RECURSIVE SumRows(_)
SumRows(list) ==
  IF Len(list) = 0 THEN << >> ELSE MergeRows(list[1].rows, SumRows(Tail(list)))

\* The loop over sectorResults: sector i is named after the canonical sector
\* it matches, else "Sektor i".
RECURSIVE BiletynaSectorLoop(_, _, _, _)
BiletynaSectorLoop(sectorResults, kupbilecikSectors, i, matchedKbSectors) ==
  IF i > Len(sectorResults) THEN << >>
  ELSE LET data == sectorResults[i]
           m == IF kupbilecikSectors.defined
                THEN matchSectorByStructure(data.rows, kupbilecikSectors.list,
                                            matchedKbSectors)
                ELSE [ matched |-> FALSE, sectorName |-> << >>,
                       matchedSectors |-> matchedKbSectors ]
           sectorName == IF m.matched THEN m.sectorName ELSE SektorLabel(i)
       IN  << MakeSector(sectorName, data.rows, data.freeSeats,
                         data.takenSeats) >>
           \o BiletynaSectorLoop(sectorResults, kupbilecikSectors, i + 1,
                                 m.matchedSectors)

combineBiletynaSectors(sectorResults, kupbilecikSectors) ==
  IF Len(sectorResults) = 0 THEN NullStats
  ELSE IF Len(sectorResults) = 1
  THEN LET data == sectorResults[1]
       IN  [ isNull |-> FALSE,
             source |-> "biletyna",
             totals |-> Totals(data.freeSeats, data.takenSeats),
             rows |-> data.rows,
             freeSeats |-> data.freeSeats,
             takenSeats |-> data.takenSeats,
             hasSectors |-> FALSE,
             sectors |-> << >> ]
  ELSE LET sectors == BiletynaSectorLoop(sectorResults, kupbilecikSectors,
                                         1, {})
           globalFreeSeats == ConcatFree(sectors)
           globalTakenSeats == ConcatTaken(sectors)
       IN  [ isNull |-> FALSE,
             source |-> "biletyna",
             totals |-> Totals(globalFreeSeats, globalTakenSeats),
             rows |-> SumRows(sectors),
             freeSeats |-> globalFreeSeats,
             takenSeats |-> globalTakenSeats,
             hasSectors |-> Len(sectors) > 1,
             sectors |-> IF Len(sectors) > 1 THEN sectors ELSE << >> ]

\* UTF-16 code order of the characters the model uses (Array.prototype.sort
\* without a comparator orders strings by code unit).
CodeOrder == << " ", "-" >> \o Digits \o << ":" >> \o UpperLetters \o LowerLetters

CharCode(c) == CHOOSE i \in DOMAIN CodeOrder : CodeOrder[i] = c

RECURSIVE StringLess(_, _)
StringLess(a, b) ==
  IF Len(b) = 0 THEN FALSE
  ELSE IF Len(a) = 0 THEN TRUE
  ELSE IF a[1] # b[1] THEN CharCode(a[1]) < CharCode(b[1])
  ELSE StringLess(Tail(a), Tail(b))

RECURSIVE sort(_)
sort(list) ==
  IF Len(list) <= 1 THEN list
  ELSE LET i == CHOOSE k \in DOMAIN list :
                  \A j \in DOMAIN list : ~StringLess(list[j], list[k])
       IN  << list[i] >>
           \o sort(SubSeq(list, 1, i - 1) \o SubSeq(list, i + 1, Len(list)))

\* The loop over seatsBySid.  Each entry is the seat list of one sector id,
\* a seat being free when its id is listed in sfs[sid].  A sector without
\* seats is not pushed, but sectorIndex counts it.
RECURSIVE EbiletSectorLoop(_, _, _, _)
EbiletSectorLoop(seatsBySid, kupbilecikSectors, sectorIndex, matchedKbSectors) ==
  IF sectorIndex > Len(seatsBySid) THEN << >>
  ELSE LET seats == seatsBySid[sectorIndex]
           sectorRowsData == RowTable(seats)
       IN  IF Len(seats) = 0
           THEN EbiletSectorLoop(seatsBySid, kupbilecikSectors,
                                 sectorIndex + 1, matchedKbSectors)
           ELSE LET m == IF kupbilecikSectors.defined
                         THEN matchSectorByStructure(sectorRowsData,
                                kupbilecikSectors.list, matchedKbSectors)
                         ELSE [ matched |-> FALSE, sectorName |-> << >>,
                                matchedSectors |-> matchedKbSectors ]
                    sectorName == IF m.matched THEN m.sectorName
                                  ELSE SektorLabel(sectorIndex)
                IN  << MakeSector(sectorName, sectorRowsData,
                                  SelectSeats(seats, TRUE),
                                  SelectSeats(seats, FALSE)) >>
                    \o EbiletSectorLoop(seatsBySid, kupbilecikSectors,
                                        sectorIndex + 1, m.matchedSectors)

processEbiletAllSectors(seatsBySid, kupbilecikSectors) ==
  IF Len(seatsBySid) = 0 THEN NullStats
  ELSE LET sectors == EbiletSectorLoop(seatsBySid, kupbilecikSectors, 1, {})
           globalFreeSeats == sort(ConcatFree(sectors))
           globalTakenSeats == sort(ConcatTaken(sectors))
       IN  IF Len(sectors) = 0 THEN NullStats
           ELSE [ isNull |-> FALSE,
                  source |-> "ebilet",
                  totals |-> Totals(globalFreeSeats, globalTakenSeats),
                  rows |-> SumRows(sectors),
                  freeSeats |-> globalFreeSeats,
                  takenSeats |-> globalTakenSeats,
                  hasSectors |-> Len(sectors) > 1,
                  sectors |-> IF Len(sectors) > 1 THEN sectors ELSE << >> ]

SCENA == << "S", "C", "E", "N", "A" >>

NullName == << "n", "u", "l", "l" >>

UndefinedName == << "u", "n", "d", "e", "f", "i", "n", "e", "d" >>

\* The seats of one czesc: its rows in order, a row without a name being
\* named after the running row index, seats with an empty name skipped.
RECURSIVE KupbilecikSeats(_, _)
KupbilecikSeats(rzedy, globalRowIndex) ==
  IF Len(rzedy) = 0 THEN << >>
  ELSE LET rzad == rzedy[1]
           rowName == IF Len(rzad.nazwa) # 0 THEN rzad.nazwa
                      ELSE String(globalRowIndex + 1)
           RECURSIVE RowSeats(_)
           RowSeats(miejsca) ==
             IF Len(miejsca) = 0 THEN << >>
             ELSE (IF \/ Len(trim(miejsca[1].nazwa)) = 0
                      \/ miejsca[1].nazwa = NullName
                      \/ miejsca[1].nazwa = UndefinedName
                   THEN << >>
                   ELSE << [ rn |-> rowName, n |-> miejsca[1].nazwa,
                             free |-> miejsca[1].free ] >>)
                  \o RowSeats(Tail(miejsca))
       IN  RowSeats(rzad.miejsca)
           \o KupbilecikSeats(Tail(rzedy), globalRowIndex + 1)

RECURSIVE KupbilecikSectorLoop(_, _)
KupbilecikSectorLoop(czesci, globalRowIndex) ==
  IF Len(czesci) = 0 THEN << >>
  ELSE LET czesc == czesci[1]
           totalSeatsInSector ==
             LET RECURSIVE Count(_)
                 Count(rz) == IF Len(rz) = 0 THEN 0
                              ELSE Len(rz[1].miejsca) + Count(Tail(rz))
             IN  Count(czesc.rzedy)
       IN  IF \/ toUpperCase(czesc.nazwa) = SCENA
              \/ Len(czesc.rzedy) = 0
              \/ totalSeatsInSector = 0
           THEN KupbilecikSectorLoop(Tail(czesci), globalRowIndex)
           ELSE LET seats == KupbilecikSeats(czesc.rzedy, globalRowIndex)
                    rest == KupbilecikSectorLoop(Tail(czesci),
                              globalRowIndex + Len(czesc.rzedy))
                IN  IF Len(seats) = 0 THEN rest
                    ELSE << MakeSector(czesc.nazwa, RowTable(seats),
                                       SelectSeats(seats, TRUE),
                                       SelectSeats(seats, FALSE)) >> \o rest

processKupbilecikData(czesci) ==
  LET sectors == KupbilecikSectorLoop(czesci, 0)
      globalFreeSeats == ConcatFree(sectors)
      globalTakenSeats == ConcatTaken(sectors)
  IN  IF Len(sectors) = 0 THEN NullStats
      ELSE [ isNull |-> FALSE,
             source |-> "kupbilecik",
             totals |-> Totals(globalFreeSeats, globalTakenSeats),
             rows |-> SumRows(sectors),
             freeSeats |-> globalFreeSeats,
             takenSeats |-> globalTakenSeats,
             hasSectors |-> Len(sectors) > 0,
             sectors |-> sectors ]

(***************************************************************************)
(* The stores: one seat-history file per event, one stats-history file.    *)
(* A file is [st, data] with st "absent", "corrupt" (not parseable as      *)
(* JSON) or "ok".                                                          *)
(***************************************************************************)
AbsentFile == [ st |-> "absent", data |-> << >> ]

CorruptFile == [ st |-> "corrupt", data |-> << >> ]

OkFile(data) == [ st |-> "ok", data |-> data ]

\* loadHistory: the parsed record, {} when the file is absent or unreadable.
loadHistory(file) == IF file.st = "ok" THEN file.data ELSE << >>

\* saveHistory: the file is rewritten with the whole record.
saveHistory(file, history) == OkFile(history)

\* clearHistory: the file is unlinked.
clearHistory(file) == AbsentFile

(***************************************************************************)
(* The URL cache: one file of entries keyed `${eventId}:${source}`, kept   *)
(* here as the set of the keys << eventId, source >> that hold an entry.   *)
(***************************************************************************)
setCachedUrl(cache, eventId, source) == cache \cup { << eventId, source >> }

clearCachedUrl(cache, eventId, source) == cache \ { << eventId, source >> }

\* The three clearCachedUrl calls of the stats route's DELETE.
RECURSIVE ClearSources(_, _, _)
ClearSources(cache, eventId, sources) ==
  IF Len(sources) = 0 THEN cache
  ELSE ClearSources(clearCachedUrl(cache, eventId, sources[1]), eventId,
                    Tail(sources))

CacheSources == << "ebilet", "biletyna", "kupbilecik" >>

NoEntry == [ found |-> FALSE ]

\* loadStatsHistory: history[eventId] || null; null on any error.
loadStatsHistory(file, eventId) ==
  IF file.st = "ok" /\ eventId \in DOMAIN file.data
  THEN [ found |-> TRUE, entry |-> file.data[eventId] ]
  ELSE NoEntry

\* saveStatsHistory reads the whole file first: the parsed record, {} when
\* the file does not exist; a file that cannot be parsed throws.
StatsFileRead(file) ==
  [ throws |-> file.st = "corrupt",
    history |-> IF file.st = "ok" THEN file.data ELSE << >> ]

\* ... then sets history[eventId] = entry and writes the record back.
StatsFileWrite(history, eventId, entry) ==
  OkFile([ id \in (DOMAIN history) \cup { eventId } |->
             IF id = eventId THEN entry ELSE history[id] ])

\* A saveStatsHistory that keeps the snapshot an event already has.
saveStatsHistory_KeepFirst(file, eventId, entry) ==
  LET rd == StatsFileRead(file)
  IN  IF rd.throws \/ eventId \in DOMAIN rd.history THEN file
      ELSE StatsFileWrite(rd.history, eventId, entry)

\* saveStatsHistory with nothing in between: an error is swallowed and the
\* file stays as it is.
saveStatsHistory(file, eventId, entry) ==
  LET rd == StatsFileRead(file)
  IN  IF rd.throws THEN file
      ELSE StatsFileWrite(rd.history, eventId, entry)

(***************************************************************************)
(* POST of the stats route.  results is the results object as the sequence *)
(* of its [source, stats] entries in insertion order (Object.entries).     *)
(***************************************************************************)
HasResult(results, source) == \E i \in DOMAIN results : results[i].source = source

ResultOf(results, source) ==
  results[CHOOSE i \in DOMAIN results : results[i].source = source].stats

\* results[source] = stats: an existing key keeps its place.
AssignResult(results, source, stats) ==
  IF HasResult(results, source)
  THEN [ i \in DOMAIN results |->
           IF results[i].source = source
           THEN [ source |-> source, stats |-> stats ] ELSE results[i] ]
  ELSE Append(results, [ source |-> source, stats |-> stats ])

\* The pages of the multi-sector walk that yield seats.
RECURSIVE BiletynaSectorResults(_)
BiletynaSectorResults(pages) ==
  IF Len(pages) = 0 THEN << >>
  ELSE LET sectorData == parseBiletynaSectorSeats(pages[1])
       IN  (IF sectorData.isNull THEN << >> ELSE << sectorData >>)
           \o BiletynaSectorResults(Tail(pages))

\* The scrape tasks and the post-processing: what the three vendors' pages
\* held (scrape) becomes the results object.  The Biletyna task assigns its
\* result itself on the single-page path, the KupBilecik task always does;
\* the two tasks finish in either order (kupFirst).  The multi-sector
\* Biletyna data and the eBilet data are processed after all tasks ended.
ScrapeResults(scrape) ==
  LET bilTask == IF scrape.biletyna.kind = "single"
                 THEN parseBiletynaSeats(scrape.biletyna.html)
                 ELSE NullStats
      kupTask == IF scrape.kupbilecik.kind = "data"
                 THEN processKupbilecikData(scrape.kupbilecik.czesci)
                 ELSE NullStats
      afterBil(r) == IF bilTask.isNull THEN r
                     ELSE AssignResult(r, "biletyna", bilTask)
      afterKup(r) == IF kupTask.isNull THEN r
                     ELSE AssignResult(r, "kupbilecik", kupTask)
      tasks == IF scrape.kupFirst THEN afterBil(afterKup(<< >>))
               ELSE afterKup(afterBil(<< >>))
      kupbilecikSectors ==
        IF HasResult(tasks, "kupbilecik")
           /\ ResultOf(tasks, "kupbilecik").hasSectors
        THEN [ defined |-> TRUE,
               list |-> ResultOf(tasks, "kupbilecik").sectors ]
        ELSE [ defined |-> FALSE, list |-> << >> ]
      bilStats == IF scrape.biletyna.kind = "multi"
                  THEN combineBiletynaSectors(
                         BiletynaSectorResults(scrape.biletyna.pages),
                         kupbilecikSectors)
                  ELSE NullStats
      withBil == IF bilStats.isNull THEN tasks
                 ELSE AssignResult(tasks, "biletyna", bilStats)
      ebiStats == IF scrape.ebilet.kind = "data"
                  THEN processEbiletAllSectors(scrape.ebilet.seatsBySid,
                                               kupbilecikSectors)
                  ELSE NullStats
  IN  IF ebiStats.isNull THEN withBil
      ELSE AssignResult(withBil, "ebilet", ebiStats)

\* The (source, sector) pairs the history loop visits, in order: the
\* entries of results that have sectors, each sector in turn.
RECURSIVE SectorVisits(_)
SectorVisits(results) ==
  IF Len(results) = 0 THEN << >>
  ELSE LET sourceData == results[1].stats
       IN  (IF ~sourceData.hasSectors THEN << >>
            ELSE [ i \in DOMAIN sourceData.sectors |->
                     [ source |-> results[1].source,
                       sector |-> sourceData.sectors[i] ] ])
           \o SectorVisits(Tail(results))

\* `${sector.sectorName}:${normalizeSeatKey(seatKey)}`
UniqueKey(sectorName, seatKey) ==
  sectorName \o << ":" >> \o normalizeSeatKey(seatKey)

SectorFreeKeys(sector) ==
  { UniqueKey(sector.sectorName, sector.freeSeats[i]) :
      i \in DOMAIN sector.freeSeats }

\* A history update in which the first visit of this run keeps the key.
RECURSIVE UpdateHistory_FirstVisitWins(_, _)
UpdateHistory_FirstVisitWins(history, visits) ==
  IF Len(visits) = 0 THEN history
  ELSE LET last == visits[Len(visits)]
           keys == SectorFreeKeys(last.sector)
           next == [ k \in (DOMAIN history) \cup keys |->
                       IF k \in keys THEN last.source ELSE history[k] ]
       IN  UpdateHistory_FirstVisitWins(next, SubSeq(visits, 1, Len(visits) - 1))

\* 1. Update history with the seats free now: history[uniqueKey] = source,
\* visit by visit, a later visit overwriting an earlier one.
RECURSIVE UpdateHistory(_, _)
UpdateHistory(history, visits) ==
  IF Len(visits) = 0 THEN history
  ELSE LET keys == SectorFreeKeys(visits[1].sector)
           next == [ k \in (DOMAIN history) \cup keys |->
                       IF k \in keys THEN visits[1].source ELSE history[k] ]
       IN  UpdateHistory(next, Tail(visits))

\* const [sectorName] = uniqueKey.split(':')
KeySectorName(uniqueKey) == split(uniqueKey, ":")[1]

\* 2. Infer the sold seats: history entries of a known sector whose key is
\* not free in this run.
InferSold(history, knownSectors, currentFreeKeys) ==
  LET sold == { k \in DOMAIN history :
                  /\ KeySectorName(k) \in knownSectors
                  /\ k \notin currentFreeKeys }
  IN  [ k \in sold |-> history[k] ]

\* A history mode that rebuilds the history from this run alone.
HistoryMode_FromThisRun(loaded, results) ==
  LET visits == SectorVisits(results)
      knownSectors == { visits[i].sector.sectorName : i \in DOMAIN visits }
      currentFreeKeys ==
        UNION { SectorFreeKeys(visits[i].sector) : i \in DOMAIN visits }
      history == UpdateHistory(<< >>, visits)
  IN  [ history |-> history,
        knownSectors |-> knownSectors,
        currentFreeKeys |-> currentFreeKeys,
        inferredSold |-> InferSold(loaded, knownSectors, currentFreeKeys) ]

HistoryMode(loaded, results) ==
  LET visits == SectorVisits(results)
      knownSectors == { visits[i].sector.sectorName : i \in DOMAIN visits }
      currentFreeKeys ==
        UNION { SectorFreeKeys(visits[i].sector) : i \in DOMAIN visits }
      history == UpdateHistory(loaded, visits)
  IN  [ history |-> history,
        knownSectors |-> knownSectors,
        currentFreeKeys |-> currentFreeKeys,
        inferredSold |-> InferSold(history, knownSectors, currentFreeKeys) ]

\* results[source]?.totals.taken || 0
TakenOf(results, source) ==
  IF HasResult(results, source) THEN ResultOf(results, source).totals.taken
  ELSE 0

CurrentStatsEntry(results, timestamp) ==
  [ biletynaTaken |-> TakenOf(results, "biletyna"),
    ebiletTaken |-> TakenOf(results, "ebilet"),
    kupbilecikTaken |-> TakenOf(results, "kupbilecik"),
    timestamp |-> timestamp ]

NoDiff == [ defined |-> FALSE ]

\* A diff that reports the raw differences.
DiffObj_Raw(currentStatsEntry, prevStats) ==
  IF ~prevStats.found THEN NoDiff
  ELSE [ defined |-> TRUE,
         biletynaTaken |-> currentStatsEntry.biletynaTaken
                             - prevStats.entry.biletynaTaken,
         ebiletTaken |-> currentStatsEntry.ebiletTaken
                           - prevStats.entry.ebiletTaken,
         kupbilecikTaken |-> currentStatsEntry.kupbilecikTaken
                               - prevStats.entry.kupbilecikTaken,
         lastUpdated |-> prevStats.entry.timestamp ]

\* 4. The diff against the previous run's snapshot.
DiffObj(currentStatsEntry, prevStats) ==
  IF ~prevStats.found THEN NoDiff
  ELSE LET bDiff == currentStatsEntry.biletynaTaken
                      - prevStats.entry.biletynaTaken
           eDiff == currentStatsEntry.ebiletTaken - prevStats.entry.ebiletTaken
           kDiff == currentStatsEntry.kupbilecikTaken
                      - prevStats.entry.kupbilecikTaken
       IN  [ defined |-> TRUE,
             biletynaTaken |-> Max2(0, bDiff),
             ebiletTaken |-> Max2(0, eDiff),
             kupbilecikTaken |-> Max2(0, kDiff),
             lastUpdated |-> prevStats.entry.timestamp ]

CombinedStats(results, inferredSold, diffObj) ==
  [ perSource |-> results,
    inferredSold |-> inferredSold,
    diff |-> diffObj ]

(***************************************************************************)
(* The scrape data the model draws from.  One physical row of one seat per *)
(* sector, spelled "V" by KupBilecik, "5" by Biletyna and "R 5" by eBilet. *)
(***************************************************************************)
Events == { "e1", "e2" }

\* The event the sequential specification refreshes; "e2" is another event
\* whose snapshot may already be in the stats file.
PassEvents == { "e1" }

SectorA == << "A" >>

SectorAB == << "A", ":", "B" >>

KupbilecikNames == << SectorA, SectorAB >>

KupCzesc(nazwa, free) ==
  [ nazwa |-> nazwa,
    rzedy |-> << [ nazwa |-> << "V" >>,
                   miejsca |-> << [ nazwa |-> << "3" >>, free |-> free ] >> ] >> ]

BiletynaPage(free) ==
  << [ row_number |-> << "5" >>, place_number |-> << "3" >>,
       place_status |-> IF free THEN STATUS_FREE ELSE << "3", "0" >> ] >>

EbiletSeats(free) ==
  << [ rn |-> << "R", " ", "5" >>, n |-> << "3" >>, free |-> free ] >>

KupbilecikScrapes ==
  { [ kind |-> "none", czesci |-> << >> ] }
  \cup { [ kind |-> "data", czesci |-> << KupCzesc(KupbilecikNames[i], f) >> ] :
           i \in DOMAIN KupbilecikNames, f \in BOOLEAN }
  \cup { [ kind |-> "data",
           czesci |-> << KupCzesc(SectorA, TRUE), KupCzesc(SectorAB, FALSE) >> ] }

BiletynaScrapes ==
  { [ kind |-> "none", html |-> << >>, pages |-> << >> ],
    [ kind |-> "single", html |-> BiletynaPage(TRUE), pages |-> << >> ],
    [ kind |-> "multi", html |-> << >>,
      pages |-> << BiletynaPage(TRUE), BiletynaPage(FALSE) >> ] }

EbiletScrapes ==
  { [ kind |-> "none", seatsBySid |-> << >> ],
    [ kind |-> "data",
      seatsBySid |-> << EbiletSeats(TRUE), EbiletSeats(FALSE) >> ] }

\* The order of the two assigning tasks shows only when both assign; with
\* an eBilet report next to them it is drawn for one KupBilecik report.
Scrapes ==
  { sc \in [ biletyna : BiletynaScrapes, ebilet : EbiletScrapes,
             kupbilecik : KupbilecikScrapes, kupFirst : BOOLEAN ] :
      sc.kupFirst \/ (sc.biletyna.kind = "single" /\ sc.kupbilecik.kind = "data"
                      /\ (sc.ebilet.kind = "none"
                            \/ Len(sc.kupbilecik.czesci) = 2)) }

\* The results objects the scrapes of the pool lead to.  Comparing an outcome
\* with itself brings its records to normal form once, before the steps of
\* concurrent workers read them.
ScrapeOutcomes ==
  { r \in { ScrapeResults(sc) : sc \in Scrapes } : r = r }

\* The scrapes of the requests that run concurrently: KupBilecik alone.
ConcurrentScrapes ==
  { sc \in Scrapes : /\ sc.biletyna.kind = "none"
                     /\ sc.ebilet.kind = "none"
                     /\ sc.kupbilecik.kind = "data"
                     /\ Len(sc.kupbilecik.czesci) = 1 }

ConcurrentOutcomes ==
  { r \in { ScrapeResults(sc) : sc \in ConcurrentScrapes } : r = r }

Requests == { "r1", "r2" }

MaxPasses == 3

(***************************************************************************)
(* The override merger of the page.                                        *)
(***************************************************************************)
SEAT_COLORS ==
  [ biletyna   |-> [ free |-> "#DDA0DD", taken |-> "#800080" ],
    ebilet     |-> [ free |-> "#FFFF99", taken |-> "#DAA520" ],
    kupbilecik |-> [ free |-> "#FF9999", taken |-> "#8B0000" ],
    noData     |-> "#808080",
    notForSale |-> "#000000",
    otherSource |-> "#5DADE2",
    boxOffice  |-> "#1ABC9C" ]

isDarkColor(color) ==
  \/ color = SEAT_COLORS.biletyna.taken
  \/ color = SEAT_COLORS.ebilet.taken
  \/ color = SEAT_COLORS.kupbilecik.taken

isLightColor(color) ==
  \/ color = SEAT_COLORS.biletyna.free
  \/ color = SEAT_COLORS.ebilet.free
  \/ color = SEAT_COLORS.kupbilecik.free

isNoDataColor(color) == color = SEAT_COLORS.noData

isSpecialColor(color) ==
  \/ color = SEAT_COLORS.notForSale
  \/ color = SEAT_COLORS.otherSource
  \/ color = SEAT_COLORS.boxOffice

\* No override for the seat: userOverride is undefined.
Undefined == "undefined"

\* A merger that lets a live sale win over every override.
mergeColors_LiveSoldFirst(liveColor, userOverride) ==
  IF userOverride = Undefined \/ userOverride = "" THEN liveColor
  ELSE IF isDarkColor(liveColor) THEN liveColor
  ELSE IF isSpecialColor(userOverride) THEN userOverride
  ELSE IF isDarkColor(userOverride) THEN userOverride
  ELSE IF isLightColor(userOverride) THEN userOverride
  ELSE liveColor

\* A merger that lets every override win over the live colour.
mergeColors_OverrideFirst(liveColor, userOverride) ==
  IF userOverride = Undefined \/ userOverride = "" THEN liveColor
  ELSE IF isSpecialColor(userOverride) THEN userOverride
  ELSE IF isDarkColor(userOverride) THEN userOverride
  ELSE IF isLightColor(userOverride) THEN userOverride
  ELSE liveColor

\* A merger that ignores a free override.
mergeColors_NoFreeOverride(liveColor, userOverride) ==
  IF userOverride = Undefined \/ userOverride = "" THEN liveColor
  ELSE IF isSpecialColor(userOverride) THEN userOverride
  ELSE IF isDarkColor(liveColor) THEN liveColor
  ELSE IF isDarkColor(userOverride) THEN userOverride
  ELSE liveColor

mergeColors(liveColor, userOverride) ==
  IF userOverride = Undefined \/ userOverride = "" THEN liveColor
  ELSE IF isSpecialColor(userOverride) THEN userOverride
  ELSE IF isDarkColor(liveColor) THEN liveColor
  ELSE IF isDarkColor(userOverride) THEN userOverride
  ELSE IF isLightColor(userOverride) THEN userOverride
  ELSE liveColor

Vendors == { "biletyna", "ebilet", "kupbilecik" }

FreeColors == { SEAT_COLORS[v].free : v \in Vendors }

TakenColors == { SEAT_COLORS[v].taken : v \in Vendors }

SpecialColors ==
  { SEAT_COLORS.notForSale, SEAT_COLORS.otherSource, SEAT_COLORS.boxOffice }

\* The colours a live seat takes, and the colours the palette paints.
LiveColors == FreeColors \cup TakenColors \cup { SEAT_COLORS.noData }

OverrideColors == LiveColors \cup SpecialColors \cup { Undefined }

Pending == "pending"

(***************************************************************************)
(* The page's seat map of one KupBilecik sector                            *)
(* (calculateSectorVisualizationWithBase).  perSource maps "biletyna" and  *)
(* "ebilet" to [hasSectors, sectors]; inferredSold maps history keys to    *)
(* vendors.  A Map of the code is a sequence of entries in insertion       *)
(* order where the order shows, a function where it does not.              *)
(***************************************************************************)
portals == << "biletyna", "ebilet", "kupbilecik" >>

NoStatus == "null"

NaN == [ nan |-> TRUE, value |-> 0 ]

DigitValue(c) == (CHOOSE i \in DOMAIN Digits : Digits[i] = c) - 1

RECURSIVE DigitsValue(_, _)
DigitsValue(s, acc) ==
  IF Len(s) = 0 \/ s[1] \notin Range(Digits) THEN acc
  ELSE DigitsValue(Tail(s), 10 * acc + DigitValue(s[1]))

\* parseInt: leading white space is skipped, then an optional sign and the
\* longest run of digits are read; NaN when there is no digit.
parseInt(s) ==
  LET keep == { i \in DOMAIN s : s[i] \notin WhiteSpace }
      t == IF keep = {} THEN << >>
           ELSE SubSeq(s, CHOOSE i \in keep : \A j \in keep : i <= j, Len(s))
      signed == Len(t) > 0 /\ t[1] \in { "-", "+" }
      body == IF signed THEN Tail(t) ELSE t
  IN  IF Len(body) = 0 \/ body[1] \notin Range(Digits) THEN NaN
      ELSE [ nan |-> FALSE,
             value |-> IF signed /\ t[1] = "-" THEN 0 - DigitsValue(body, 0)
                       ELSE DigitsValue(body, 0) ]

\* The comparator of the seats of a row: (parseInt(a) || 0) - (parseInt(b) || 0).
SeatBefore(a, b) == parseInt(a).value < parseInt(b).value

\* The comparator of the rows: numeric when both parse, else localeCompare
\* (which agrees with the code-unit order on digits and lower-case letters).
RowBefore(a, b) ==
  IF ~parseInt(a).nan /\ ~parseInt(b).nan
  THEN parseInt(a).value < parseInt(b).value
  ELSE StringLess(a, b)

\* Array.prototype.sort with a comparator: a stable sort.  An element goes
\* after the elements the comparator puts before it and after the earlier
\* elements it ties with.  before is the set of the pairs << a, b >> the
\* comparator orders a before b.
sortBy(list, before) ==
  LET rank(i) == 1 + Cardinality({ j \in DOMAIN list :
                                     \/ << list[j], list[i] >> \in before
                                     \/ /\ << list[i], list[j] >> \notin before
                                        /\ j < i })
  IN  [ k \in DOMAIN list |-> list[CHOOSE i \in DOMAIN list : rank(i) = k] ]

\* seatsPerRow after one of the two initializing loops: per seat, the row
\* is entered when new and the seat name pushed (in the loop over the taken
\* seats only when the row does not include it yet).
RECURSIVE PushSeats(_, _, _)
PushSeats(seatsPerRow, seats, unlessIncluded) ==
  IF Len(seats) = 0 THEN seatsPerRow
  ELSE LET normalizedSeat == pageNormalizeSeatKey(seats[1])
           parts == split(normalizedSeat, "-")
           row == parts[1]
           seatName == join(Tail(parts), "-")
           entered == IF \E i \in DOMAIN seatsPerRow : seatsPerRow[i].row = row
                      THEN seatsPerRow
                      ELSE Append(seatsPerRow, [ row |-> row, seats |-> << >> ])
           pushed == [ i \in DOMAIN entered |->
                         IF /\ entered[i].row = row
                            /\ ~(/\ unlessIncluded
                                 /\ seatName \in Range(entered[i].seats))
                         THEN [ entered[i] EXCEPT
                                  !.seats = Append(@, seatName) ]
                         ELSE entered[i] ]
       IN  PushSeats(pushed, Tail(seats), unlessIncluded)

\* sourceStats.sectors.find(s => s.sectorName === kbSector.sectorName)
FindSector(sectors, sectorName) ==
  LET found == { i \in DOMAIN sectors : sectors[i].sectorName = sectorName }
  IN  IF found = {} THEN [ found |-> FALSE ]
      ELSE [ found |-> TRUE,
             sector |-> sectors[CHOOSE i \in found : \A j \in found : i <= j] ]

NormalizedKeys(seats) == { pageNormalizeSeatKey(seats[i]) : i \in DOMAIN seats }

\* What the overlay of a vendor leaves in a seat's status: 'taken' when the
\* matching sector lists the seat taken (the later loop), 'free' when it
\* lists it free, null otherwise.
OverlayStatus(sourceStats, sectorName, normalizedSeat) ==
  IF ~sourceStats.hasSectors THEN NoStatus
  ELSE LET m == FindSector(sourceStats.sectors, sectorName)
       IN  IF ~m.found THEN NoStatus
           ELSE IF normalizedSeat \in NormalizedKeys(m.sector.takenSeats)
           THEN "taken"
           ELSE IF normalizedSeat \in NormalizedKeys(m.sector.freeSeats)
           THEN "free"
           ELSE NoStatus

\* The seats a vendor's matching sector lists, normalized.
OverlaySeats(sourceStats, sectorName) ==
  IF ~sourceStats.hasSectors THEN {}
  ELSE LET m == FindSector(sourceStats.sectors, sectorName)
       IN  IF ~m.found THEN {}
           ELSE NormalizedKeys(m.sector.freeSeats)
                  \cup NormalizedKeys(m.sector.takenSeats)

\* Statuses in which an overlay also enters the seats the map lacks.
SeatStatuses_WithOverlaySeats(kbSector, perSource) ==
  [ normalizedSeat \in NormalizedKeys(kbSector.freeSeats)
                         \cup NormalizedKeys(kbSector.takenSeats)
                         \cup OverlaySeats(perSource.biletyna,
                                           kbSector.sectorName)
                         \cup OverlaySeats(perSource.ebilet,
                                           kbSector.sectorName) |->
      [ biletyna |-> OverlayStatus(perSource.biletyna, kbSector.sectorName,
                                   normalizedSeat),
        ebilet |-> OverlayStatus(perSource.ebilet, kbSector.sectorName,
                                 normalizedSeat),
        kupbilecik |->
          IF normalizedSeat \in NormalizedKeys(kbSector.takenSeats)
          THEN "taken"
          ELSE IF normalizedSeat \in NormalizedKeys(kbSector.freeSeats)
          THEN "free" ELSE NoStatus ] ]

\* seatStatuses: set from the KupBilecik sector's own lists, the taken loop
\* running last; the overlays write only to keys the map has.
SeatStatuses(kbSector, perSource) ==
  [ normalizedSeat \in NormalizedKeys(kbSector.freeSeats)
                         \cup NormalizedKeys(kbSector.takenSeats) |->
      [ biletyna |-> OverlayStatus(perSource.biletyna, kbSector.sectorName,
                                   normalizedSeat),
        ebilet |-> OverlayStatus(perSource.ebilet, kbSector.sectorName,
                                 normalizedSeat),
        kupbilecik |->
          IF normalizedSeat \in NormalizedKeys(kbSector.takenSeats)
          THEN "taken" ELSE "free" ] ]

UnknownStatuses ==
  [ biletyna |-> NoStatus, ebilet |-> NoStatus, kupbilecik |-> NoStatus ]

\* A painting that looks up the inferred sale before the free statuses.
SeatPaint_SoldFirst(sectorName, seatKey, seatStatuses, inferredSold) ==
  LET statuses == IF seatKey \in DOMAIN seatStatuses
                  THEN seatStatuses[seatKey] ELSE UnknownStatuses
      free == { i \in DOMAIN portals : statuses[portals[i]] = "free" }
      uniqueKey == sectorName \o << ":" >> \o seatKey
  IN  IF uniqueKey \in DOMAIN inferredSold
      THEN [ color |-> SEAT_COLORS[inferredSold[uniqueKey]].taken,
             stat |-> << inferredSold[uniqueKey], "Taken" >> ]
      ELSE IF free # {}
      THEN LET freeOnPortal == portals[CHOOSE i \in free :
                                         \A j \in free : i <= j]
           IN  [ color |-> SEAT_COLORS[freeOnPortal].free,
                 stat |-> << freeOnPortal, "Free" >> ]
      ELSE [ color |-> SEAT_COLORS.noData, stat |-> << "noData" >> ]

\* The colour of one seat of the map and the counter it adds to.
SeatPaint(sectorName, seatKey, seatStatuses, inferredSold) ==
  LET statuses == IF seatKey \in DOMAIN seatStatuses
                  THEN seatStatuses[seatKey] ELSE UnknownStatuses
      free == { i \in DOMAIN portals : statuses[portals[i]] = "free" }
      uniqueKey == sectorName \o << ":" >> \o seatKey
  IN  IF free # {}
      THEN LET freeOnPortal == portals[CHOOSE i \in free :
                                         \A j \in free : i <= j]
           IN  [ color |-> SEAT_COLORS[freeOnPortal].free,
                 stat |-> << freeOnPortal, "Free" >> ]
      ELSE IF uniqueKey \in DOMAIN inferredSold
      THEN [ color |-> SEAT_COLORS[inferredSold[uniqueKey]].taken,
             stat |-> << inferredSold[uniqueKey], "Taken" >> ]
      ELSE [ color |-> SEAT_COLORS.noData, stat |-> << "noData" >> ]

\* The seat keys of the map, row by row, one per pushed seat name.
RECURSIVE MapSeatKeys(_)
MapSeatKeys(seatsPerRow) ==
  IF Len(seatsPerRow) = 0 THEN << >>
  ELSE [ i \in DOMAIN seatsPerRow[1].seats |->
           BuildSeatKey(seatsPerRow[1].row, seatsPerRow[1].seats[i]) ]
       \o MapSeatKeys(Tail(seatsPerRow))

ColorStatNames ==
  { << v, k >> : v \in Range(portals), k \in { "Free", "Taken" } }
  \cup { << "noData" >> }

\* rowsWithFree is computed by the code and read nowhere; it is left out.
calculateSectorVisualizationWithBase(kbSector, perSource, inferredSold) ==
  LET seatStatuses == SeatStatuses(kbSector, perSource)
      pushed == PushSeats(PushSeats(<< >>, kbSector.freeSeats, FALSE),
                          kbSector.takenSeats, TRUE)
      seatsPerRow == [ i \in DOMAIN pushed |->
                         [ pushed[i] EXCEPT
                             !.seats =
                               sortBy(@, { ab \in Range(@) \X Range(@) :
                                             SeatBefore(ab[1], ab[2]) }) ] ]
      seatKeys == MapSeatKeys(seatsPerRow)
      paint == [ i \in DOMAIN seatKeys |->
                   SeatPaint(kbSector.sectorName, seatKeys[i], seatStatuses,
                             inferredSold) ]
  IN  [ sectorName |-> kbSector.sectorName,
        seatStatuses |-> seatStatuses,
        seatColors |-> [ seatKey \in Range(seatKeys) |->
                           SeatPaint(kbSector.sectorName, seatKey,
                                     seatStatuses, inferredSold).color ],
        seatsPerRow |-> seatsPerRow,
        sortedRows |->
          LET rows == [ i \in DOMAIN seatsPerRow |-> seatsPerRow[i].row ]
          IN  sortBy(rows, { ab \in Range(rows) \X Range(rows) :
                               RowBefore(ab[1], ab[2]) }),
        totalSeats |-> Len(seatKeys),
        colorStats |-> [ name \in ColorStatNames |->
                           Cardinality({ i \in DOMAIN paint :
                                           paint[i].stat = name }) ] ]

(***************************************************************************)
(* State.                                                                  *)
(***************************************************************************)
VARIABLES
  historyFiles,   \* data/history/<eventId>.json, per event
  statsFile,      \* data/stats_history.json
  lastPass,       \* per event, the last completed POST: its response
                  \* (stats) and the snapshot it had loaded (prevStats)
  now,            \* the clock: the number of timestamps taken
  reqs,           \* per concurrent request, its position and its locals
  liveColor,      \* the live colour of a seat on the page
  userOverride,   \* the saved override of that seat
  mergedColor,    \* the colour the page shows for it
  rowLabel,       \* a row label as a vendor spells it
  seatLabel,      \* a seat label as a vendor spells it
  backendCodec,   \* the label normalized and its key, by the stats route
  pageCodec,      \* the label normalized and its key, by the page
  canonicalSectors,  \* the KupBilecik sectors a vendor's sectors are
                     \* matched to
  vendorSectors,     \* the sectors of one vendor's report, in report order
  matchedKbSectors,  \* the names of the canonical sectors claimed so far
  alignment,         \* per vendor sector processed: the outcome of its match
  seatMapInput,      \* the page's data of one KupBilecik sector: kbSector,
                     \* perSource and inferredSold
  seatMap,           \* the seat map the page computes from it
  urlCache,          \* data/url_cache.json: the keys << eventId, source >>
                     \* that hold a remembered URL
  overridesFiles     \* data/overrides/<eventId>.json, per event

vars == << historyFiles, statsFile, lastPass, now, reqs,
           liveColor, userOverride, mergedColor,
           rowLabel, seatLabel, backendCodec, pageCodec,
           canonicalSectors, vendorSectors, matchedKbSectors, alignment,
           seatMapInput, seatMap, urlCache, overridesFiles >>

passVars == << historyFiles, statsFile, lastPass, now >>

mergeVars == << liveColor, userOverride, mergedColor >>

keyVars == << rowLabel, seatLabel, backendCodec, pageCodec >>

matchVars ==
  << canonicalSectors, vendorSectors, matchedKbSectors, alignment >>

seatMapVars == << seatMapInput, seatMap >>

pageVars == << mergeVars, keyVars, matchVars, seatMapVars >>

\* What the passes of the stats route leave alone.
pureVars == << pageVars, urlCache, overridesFiles >>

NoPass == [ returned |-> FALSE ]

IdleRequest == [ pc |-> "idle" ]

\* The snapshot another event's earlier pass left in the stats file.
OtherSnapshot ==
  [ biletynaTaken |-> 1, ebiletTaken |-> 1, kupbilecikTaken |-> 1,
    timestamp |-> 0 ]

InitStores ==
  /\ historyFiles \in [ Events -> { AbsentFile, CorruptFile } ]
  /\ \A e \in Events \ PassEvents : historyFiles[e] = AbsentFile
  /\ statsFile \in { AbsentFile, CorruptFile,
                     OkFile([ e \in Events \ PassEvents |-> OtherSnapshot ]) }
  /\ lastPass = [ e \in Events |-> NoPass ]
  /\ now = 0

InitPage ==
  /\ liveColor = SEAT_COLORS.noData
  /\ userOverride = Undefined
  /\ mergedColor = Pending

NotComputed == [ done |-> FALSE ]

InitKeys ==
  /\ rowLabel = << >>
  /\ seatLabel = << >>
  /\ backendCodec = NotComputed
  /\ pageCodec = NotComputed

InitMatch ==
  /\ canonicalSectors = << >>
  /\ vendorSectors = << >>
  /\ matchedKbSectors = {}
  /\ alignment = << >>

InitSeatMap ==
  /\ seatMapInput = NotComputed
  /\ seatMap = NotComputed

\* No remembered URL, no saved overrides.
InitCaches ==
  /\ urlCache = {}
  /\ overridesFiles = [ e \in Events |-> AbsentFile ]

Init ==
  /\ InitStores
  /\ reqs = [ r \in Requests |-> IdleRequest ]
  /\ InitPage
  /\ InitKeys
  /\ InitMatch
  /\ InitSeatMap
  /\ InitCaches

Completed(results, inferredSold, diffObj, prevStats) ==
  [ returned |-> TRUE,
    stats |-> CombinedStats(results, inferredSold, diffObj),
    prevStats |-> prevStats ]

\* One whole stats-refresh pass of event e, nothing else in flight.
Pass(e, results) ==
  LET hm == HistoryMode(loadHistory(historyFiles[e]), results)
      currentStatsEntry == CurrentStatsEntry(results, now + 1)
      prevStats == loadStatsHistory(statsFile, e)
      diffObj == DiffObj(currentStatsEntry, prevStats)
  IN  /\ historyFiles' =
           [ historyFiles EXCEPT ![e] = saveHistory(@, hm.history) ]
      /\ statsFile' = saveStatsHistory(statsFile, e, currentStatsEntry)
      /\ lastPass' =
           [ lastPass EXCEPT ![e] =
               Completed(results, hm.inferredSold, diffObj, prevStats) ]
      /\ now' = now + 1

POST ==
  \E e \in PassEvents, results \in ScrapeOutcomes :
    /\ now < MaxPasses
    /\ Pass(e, results)
    /\ UNCHANGED << reqs, pureVars >>

\* A reset that removes the saved overrides of the event as well.
DELETE_WithOverrides ==
  \E e \in Events :
    /\ urlCache' = ClearSources(urlCache, e, CacheSources)
    /\ historyFiles' = [ historyFiles EXCEPT ![e] = clearHistory(@) ]
    /\ overridesFiles' = [ overridesFiles EXCEPT ![e] = AbsentFile ]
    /\ UNCHANGED << statsFile, lastPass, now, reqs, pageVars >>

\* DELETE of the stats route: the remembered URLs of the event's three
\* sources are dropped and its seat history is cleared.
DELETE ==
  \E e \in Events :
    /\ urlCache' = ClearSources(urlCache, e, CacheSources)
    /\ historyFiles' = [ historyFiles EXCEPT ![e] = clearHistory(@) ]
    /\ UNCHANGED << statsFile, lastPass, now, reqs, pageVars,
                    overridesFiles >>

Next == POST \/ DELETE

Spec == Init /\ [][Next]_vars

(***************************************************************************)
(* Concurrent POST requests: each request is the handler cut at its        *)
(* awaits (loadHistory, saveHistory, loadStatsHistory, and the read and    *)
(* the write inside saveStatsHistory).  Nothing in the route holds a       *)
(* second request of an event back while the first is in flight.           *)
(***************************************************************************)
\* The scrape has ended and the handler calls loadHistory.
Begin(r) ==
  \E e \in Events, results \in ConcurrentOutcomes :
    /\ reqs[r].pc = "idle"
    /\ reqs' = [ reqs EXCEPT ![r] =
                   [ pc |-> "loadHistory", event |-> e, results |-> results ] ]
    /\ UNCHANGED << passVars, pureVars >>

\* loadHistory returns; history is updated, the sold seats are inferred and
\* saveHistory is called.
LoadHistoryReturns(r) ==
  /\ reqs[r].pc = "loadHistory"
  /\ LET q == reqs[r]
         hm == HistoryMode(loadHistory(historyFiles[q.event]), q.results)
     IN  reqs' = [ reqs EXCEPT ![r] =
                     [ pc |-> "saveHistory", event |-> q.event,
                       results |-> q.results, history |-> hm.history,
                       inferredSold |-> hm.inferredSold ] ]
  /\ UNCHANGED << passVars, pureVars >>

\* saveHistory writes the file; the timestamp is taken and loadStatsHistory
\* is called.
SaveHistoryReturns(r) ==
  /\ reqs[r].pc = "saveHistory"
  /\ LET q == reqs[r]
     IN  /\ historyFiles' =
              [ historyFiles EXCEPT ![q.event] = saveHistory(@, q.history) ]
         /\ reqs' = [ reqs EXCEPT ![r] =
                        [ pc |-> "loadStats", event |-> q.event,
                          results |-> q.results,
                          inferredSold |-> q.inferredSold,
                          currentStatsEntry |->
                            CurrentStatsEntry(q.results, now + 1) ] ]
  /\ now' = now + 1
  /\ UNCHANGED << statsFile, lastPass, pureVars >>

\* loadStatsHistory returns; the diff is computed and saveStatsHistory is
\* called.  It looks for the file at once: when there is none it starts
\* from {} and goes on to write, otherwise it awaits the read.
LoadStatsReturns(r) ==
  /\ reqs[r].pc = "loadStats"
  /\ LET q == reqs[r]
         prevStats == loadStatsHistory(statsFile, q.event)
         exists == statsFile.st # "absent"
     IN  reqs' = [ reqs EXCEPT ![r] =
                     IF exists
                     THEN [ pc |-> "saveStatsRead", event |-> q.event,
                            results |-> q.results,
                            inferredSold |-> q.inferredSold,
                            currentStatsEntry |-> q.currentStatsEntry,
                            prevStats |-> prevStats,
                            diffObj |-> DiffObj(q.currentStatsEntry,
                                                prevStats) ]
                     ELSE [ pc |-> "saveStatsWrite", event |-> q.event,
                            results |-> q.results,
                            inferredSold |-> q.inferredSold,
                            currentStatsEntry |-> q.currentStatsEntry,
                            prevStats |-> prevStats,
                            diffObj |-> DiffObj(q.currentStatsEntry,
                                                prevStats),
                            statsHistory |-> StatsFileRead(statsFile).history ] ]
  /\ UNCHANGED << passVars, pureVars >>

\* saveStatsHistory has read the file.  When it cannot be parsed the error
\* is swallowed and the response is sent.
SaveStatsReads(r) ==
  /\ reqs[r].pc = "saveStatsRead"
  /\ LET q == reqs[r]
         rd == StatsFileRead(statsFile)
     IN  IF rd.throws
         THEN /\ reqs' = [ reqs EXCEPT ![r] =
                             [ pc |-> "done", event |-> q.event,
                               results |-> q.results ] ]
              /\ lastPass' =
                   [ lastPass EXCEPT ![q.event] =
                       Completed(q.results, q.inferredSold, q.diffObj,
                                 q.prevStats) ]
         ELSE /\ reqs' = [ reqs EXCEPT ![r] =
                             [ pc |-> "saveStatsWrite", event |-> q.event,
                               results |-> q.results,
                               inferredSold |-> q.inferredSold,
                               currentStatsEntry |-> q.currentStatsEntry,
                               prevStats |-> q.prevStats,
                               diffObj |-> q.diffObj,
                               statsHistory |-> rd.history ] ]
              /\ UNCHANGED lastPass
  /\ UNCHANGED << historyFiles, statsFile, now, pureVars >>

\* saveStatsHistory writes the file and the response is sent.
SaveStatsWrites(r) ==
  /\ reqs[r].pc = "saveStatsWrite"
  /\ LET q == reqs[r]
     IN  /\ statsFile' =
              StatsFileWrite(q.statsHistory, q.event, q.currentStatsEntry)
         /\ reqs' = [ reqs EXCEPT ![r] =
                        [ pc |-> "done", event |-> q.event,
                          results |-> q.results ] ]
         /\ lastPass' =
              [ lastPass EXCEPT ![q.event] =
                  Completed(q.results, q.inferredSold, q.diffObj,
                            q.prevStats) ]
  /\ UNCHANGED << historyFiles, now, pureVars >>

NextConcurrent ==
  \E r \in Requests :
    \/ Begin(r)
    \/ LoadHistoryReturns(r)
    \/ SaveHistoryReturns(r)
    \/ LoadStatsReturns(r)
    \/ SaveStatsReads(r)
    \/ SaveStatsWrites(r)

SpecConcurrent == Init /\ [][NextConcurrent]_vars

(***************************************************************************)
(* The page merging one seat's live colour with its override.              *)
(***************************************************************************)
\* The stats route with nothing stored and no request.
IdleRoute ==
  /\ historyFiles = [ e \in Events |-> AbsentFile ]
  /\ statsFile = AbsentFile
  /\ lastPass = [ e \in Events |-> NoPass ]
  /\ now = 0
  /\ reqs = [ r \in Requests |-> IdleRequest ]

InitMerge ==
  /\ IdleRoute
  /\ liveColor \in LiveColors \cup SpecialColors
  /\ userOverride \in OverrideColors
  /\ mergedColor = Pending
  /\ InitKeys
  /\ InitMatch
  /\ InitSeatMap
  /\ InitCaches

Merge ==
  /\ mergedColor = Pending
  /\ mergedColor' = mergeColors(liveColor, userOverride)
  /\ UNCHANGED << passVars, urlCache, overridesFiles, reqs,
                  liveColor, userOverride, keyVars,
                  matchVars, seatMapVars >>

NextMerge == Merge

SpecMerge == InitMerge /\ [][NextMerge]_vars

(***************************************************************************)
(* Row labels and seat keys: a label is normalized, the key of a seat is   *)
(* built from the normalized row, read back and normalized again, by the   *)
(* stats route and by the page.                                            *)
(***************************************************************************)
MaxRowLen == 3

LabelChars == { "I", "V", "X", "L", "a", "v", "0", "5", " ", "-" }

RowLabels == UNION { [ 1..n -> LabelChars ] : n \in 0..MaxRowLen }

SeatLabels == { << >>, << "V" >>, << "1", "2" >>, << "1", "-", "2" >> }

Codec(row, seat, key, normalizedKey) ==
  [ done |-> TRUE,
    row |-> row,
    key |-> key,
    parsed |-> ParseSeatKey(key),
    normalizedKey |-> normalizedKey ]

InitCodec ==
  /\ IdleRoute
  /\ InitPage
  /\ rowLabel \in RowLabels
  /\ seatLabel \in SeatLabels
  /\ backendCodec = NotComputed
  /\ pageCodec = NotComputed
  /\ InitMatch
  /\ InitSeatMap
  /\ InitCaches

BackendNormalizes ==
  /\ ~backendCodec.done
  /\ LET row == normalizeRowName(rowLabel)
         key == BuildSeatKey(row, seatLabel)
     IN  backendCodec' = Codec(row, seatLabel, key, normalizeSeatKey(key))
  /\ UNCHANGED << passVars, urlCache, overridesFiles, reqs,
                  mergeVars, matchVars, seatMapVars,
                  rowLabel, seatLabel, pageCodec >>

PageNormalizes ==
  /\ ~pageCodec.done
  /\ LET row == pageNormalizeRowName(rowLabel)
         key == BuildSeatKey(row, seatLabel)
     IN  pageCodec' = Codec(row, seatLabel, key, pageNormalizeSeatKey(key))
  /\ UNCHANGED << passVars, urlCache, overridesFiles, reqs,
                  mergeVars, matchVars, seatMapVars,
                  rowLabel, seatLabel, backendCodec >>

NextCodec == BackendNormalizes \/ PageNormalizes

SpecCodec == InitCodec /\ [][NextCodec]_vars

(***************************************************************************)
(* Sector alignment: the sectors of one vendor's report are matched, in    *)
(* report order, to the KupBilecik sectors, as the loop of                 *)
(* combineBiletynaSectors does.  A shape lists the rows of a sector as     *)
(* <<label, number of seats>>.                                             *)
(***************************************************************************)
MaxSectors == 2

\* The shapes a vendor's sector page takes.
VendorShapes ==
  { << << <<"1">>, 2 >>, << <<"2">>, 2 >> >>,
    << << <<"1">>, 2 >>, << <<"2">>, 2 >>, << <<"3">>, 2 >> >>,
    << << <<"V">>, 2 >>, << <<"5">>, 2 >> >>,
    << << <<"1">>, 3 >>, << <<"2">>, 3 >> >> }

\* The shapes a KupBilecik sector takes.
SectorShapes ==
  VendorShapes \cup
  { << << <<"I">>, 2 >>, << <<"I","I">>, 2 >> >>,
    << << <<"1">>, 2 >>, << <<"2">>, 2 >>, << <<"3">>, 1 >>,
       << <<"4">>, 1 >> >> }

\* The seats of a shape: row by row, the seats "1", "2", ... of the row.
RECURSIVE ShapeSeats(_)
ShapeSeats(shape) ==
  IF Len(shape) = 0 THEN << >>
  ELSE [ n \in 1..shape[1][2] |->
           [ rn |-> shape[1][1], n |-> String(n), free |-> FALSE ] ]
       \o ShapeSeats(Tail(shape))

ShapeSector(sectorName, shape) ==
  LET seats == ShapeSeats(shape)
  IN  MakeSector(sectorName, RowTable(seats), SelectSeats(seats, TRUE),
                 SelectSeats(seats, FALSE))

CanonicalNames == << << "A" >>, << "B" >>, << "C" >> >>

ShapeLists(shapes) == UNION { [ 1..n -> shapes ] : n \in 1..MaxSectors }

\* The KupBilecik sectors, named "A", "B", ... in order, and a venue whose
\* only sector KupBilecik itself calls "Sektor 2".
CanonicalLists ==
  { [ i \in DOMAIN shapes |-> ShapeSector(CanonicalNames[i], shapes[i]) ] :
      shapes \in ShapeLists(SectorShapes) }
  \cup { << ShapeSector(SektorLabel(2), shape) >> : shape \in SectorShapes }

\* The sector pages of a vendor's report; a page carries no name.
VendorLists ==
  { [ i \in DOMAIN shapes |-> ShapeSector(<< >>, shapes[i]) ] :
      shapes \in ShapeLists(VendorShapes) }

InitAlign ==
  /\ IdleRoute
  /\ InitPage
  /\ InitKeys
  /\ InitSeatMap
  /\ InitCaches
  /\ canonicalSectors \in CanonicalLists
  /\ vendorSectors \in VendorLists
  /\ matchedKbSectors = {}
  /\ alignment = << >>

\* One turn of the loop: the next sector of the report is matched and
\* named after its match, or "Sektor i".
AlignNext ==
  /\ Len(alignment) < Len(vendorSectors)
  /\ LET i == Len(alignment) + 1
         data == vendorSectors[i]
         m == matchSectorByStructure(data.rows, canonicalSectors,
                                     matchedKbSectors)
         sectorName == IF m.matched THEN m.sectorName ELSE SektorLabel(i)
     IN  /\ alignment' = Append(alignment,
                                [ matched |-> m.matched,
                                  sectorName |-> sectorName,
                                  claimedBefore |-> matchedKbSectors ])
         /\ matchedKbSectors' = m.matchedSectors
  /\ UNCHANGED << passVars, urlCache, overridesFiles, reqs,
                  mergeVars, keyVars, seatMapVars,
                  canonicalSectors, vendorSectors >>

NextAlign == AlignNext

SpecAlign == InitAlign /\ [][NextAlign]_vars

(***************************************************************************)
(* The seat map of one KupBilecik sector "A", computed from the sector,    *)
(* the other vendors' sectors and the inferred sales of a response.  A     *)
(* seat is <<row label, seat label>>; "V-3" and "5-3" are one seat once    *)
(* normalized, "5-9" and "5-7" are seats KupBilecik does not list.         *)
(***************************************************************************)
KbSeatPool == << << <<"V">>, <<"3">> >>, << <<"5">>, <<"3">> >>,
                 << <<"5">>, <<"4">> >>, << <<"a">>, <<"1">> >> >>

\* The seats of the pool a listing shows, in pool order.
RECURSIVE PoolSeats(_, _)
PoolSeats(listing, i) ==
  IF i > Len(KbSeatPool) THEN << >>
  ELSE (IF listing[i] = "absent" THEN << >>
        ELSE << [ rn |-> KbSeatPool[i][1], n |-> KbSeatPool[i][2],
                  free |-> listing[i] = "free" ] >>)
       \o PoolSeats(listing, i + 1)

\* The history key of a seat of sector "A".
SectorSeatKeyOf(row, seat) ==
  SectorA \o << ":" >> \o BuildSeatKey(row, seat)

\* The sector processKupbilecikData builds when each seat of the pool is
\* absent, free or taken; a sector without seats is not pushed.
KbSectors ==
  { MakeSector(SectorA, RowTable(seats), SelectSeats(seats, TRUE),
               SelectSeats(seats, FALSE)) :
      seats \in { PoolSeats(listing, 1) :
                    listing \in [ DOMAIN KbSeatPool ->
                                    { "absent", "free", "taken" } ] }
                \ { << >> } }

NoSectors == [ hasSectors |-> FALSE, sectors |-> << >> ]

OverlaySector(sectorName, seats) ==
  [ hasSectors |-> TRUE,
    sectors |-> << MakeSector(sectorName, RowTable(seats),
                              SelectSeats(seats, TRUE),
                              SelectSeats(seats, FALSE)) >> ]

\* Biletyna: no sectors, an unmatched sector, or a sector matched to "A"
\* listing seat 5-3 and the seat 5-9 KupBilecik lacks.
BiletynaOverlays ==
  { NoSectors,
    OverlaySector(SektorLabel(1),
                  << [ rn |-> <<"5">>, n |-> <<"3">>, free |-> TRUE ] >>) }
  \cup { OverlaySector(SectorA,
                       << [ rn |-> <<"5">>, n |-> <<"3">>, free |-> f ],
                          [ rn |-> <<"5">>, n |-> <<"9">>, free |-> g ] >>) :
           f, g \in BOOLEAN }

EbiletOverlays ==
  { NoSectors,
    OverlaySector(SectorA,
                  << [ rn |-> <<"5">>, n |-> <<"4">>, free |-> TRUE ],
                     [ rn |-> <<"5">>, n |-> <<"7">>, free |-> TRUE ] >>) }

InferredSoldPool ==
  { << >>,
    (SectorSeatKeyOf(<<"5">>, <<"4">>) :> "biletyna")
      @@ (SectorSeatKeyOf(<<"5">>, <<"9">>) :> "ebilet") }

SeatMapInputs ==
  { [ done |-> TRUE, kbSector |-> kb,
      perSource |-> [ biletyna |-> b, ebilet |-> e ],
      inferredSold |-> sold ] :
      kb \in KbSectors, b \in BiletynaOverlays, e \in EbiletOverlays,
      sold \in InferredSoldPool }

InitSeatMapInput ==
  /\ IdleRoute
  /\ InitPage
  /\ InitKeys
  /\ InitMatch
  /\ InitCaches
  /\ seatMapInput \in SeatMapInputs
  /\ seatMap = NotComputed

\* The page renders the sector.
RenderSector ==
  /\ ~seatMap.done
  /\ seatMap' =
       [ done |-> TRUE,
         map |-> calculateSectorVisualizationWithBase(
                   seatMapInput.kbSector, seatMapInput.perSource,
                   seatMapInput.inferredSold) ]
  /\ UNCHANGED << passVars, urlCache, overridesFiles, reqs,
                  mergeVars, keyVars, matchVars,
                  seatMapInput >>

NextSeatMap == RenderSector

SpecSeatMap == InitSeatMapInput /\ [][NextSeatMap]_vars

(***************************************************************************)
(* Cache resets and the overrides route.  Every event has a seat history   *)
(* to begin with; URLs are remembered by the scrape tasks of the passes,   *)
(* which are not followed any further here.                                *)
(***************************************************************************)
StoredHistory == UniqueKey(SectorA, << "5", "-", "3" >>) :> "biletyna"

\* The bodies posted to the overrides route: without overrides, with an
\* empty map, with one seat painted not-for-sale.
OverrideBodies ==
  { [ valid |-> FALSE, overrides |-> << >>, statsSnapshot |-> Undefined ],
    [ valid |-> TRUE, overrides |-> << >>, statsSnapshot |-> Undefined ],
    [ valid |-> TRUE,
      overrides |-> (SectorA \o << ":", ":", "5", "-", "3" >>)
                      :> SEAT_COLORS.notForSale,
      statsSnapshot |-> Undefined ] }

InitReset ==
  /\ historyFiles = [ e \in Events |-> OkFile(StoredHistory) ]
  /\ statsFile = AbsentFile
  /\ lastPass = [ e \in Events |-> NoPass ]
  /\ now = 0
  /\ reqs = [ r \in Requests |-> IdleRequest ]
  /\ InitPage
  /\ InitKeys
  /\ InitMatch
  /\ InitSeatMap
  /\ InitCaches

\* A scrape task of a pass remembers the URL it ended on.
RememberUrl ==
  \E e \in Events, source \in Vendors :
    /\ urlCache' = setCachedUrl(urlCache, e, source)
    /\ UNCHANGED << passVars, reqs, pageVars, overridesFiles >>

\* POST of the overrides route: a body without an overrides object is
\* refused, any other replaces the file of the event.
OverridesPOST ==
  \E e \in Events, body \in OverrideBodies :
    /\ overridesFiles' =
         IF ~body.valid THEN overridesFiles
         ELSE [ overridesFiles EXCEPT
                  ![e] = OkFile([ eventId |-> e, lastUpdated |-> now,
                                  overrides |-> body.overrides,
                                  statsSnapshot |-> body.statsSnapshot ]) ]
    /\ UNCHANGED << passVars, reqs, pageVars, urlCache >>

\* DELETE of the overrides route: the file of the event is unlinked.
OverridesDELETE ==
  \E e \in Events :
    /\ overridesFiles' = [ overridesFiles EXCEPT ![e] = AbsentFile ]
    /\ UNCHANGED << passVars, reqs, pageVars, urlCache >>

NextReset == RememberUrl \/ DELETE \/ OverridesPOST \/ OverridesDELETE

SpecReset == InitReset /\ [][NextReset]_vars

(***************************************************************************)
(* What a completed pass shows, as the properties below read it.           *)
(***************************************************************************)
PresentVendors(results) == { results[i].source : i \in DOMAIN results }

\* The vendors whose report is split into sectors.
SectoredVendors(results) ==
  { i \in DOMAIN results : results[i].stats.hasSectors }

ReturnedSectorNames(results) ==
  UNION { { results[i].stats.sectors[j].sectorName :
              j \in DOMAIN results[i].stats.sectors } :
          i \in SectoredVendors(results) }

\* The sector reports of a pass: vendor, sector name, raw free seat keys.
SectorReports(results) ==
  UNION { { [ vendor |-> results[i].source,
              sectorName |-> results[i].stats.sectors[j].sectorName,
              freeSeats |-> Range(results[i].stats.sectors[j].freeSeats) ] :
              j \in DOMAIN results[i].stats.sectors } :
          i \in SectoredVendors(results) }

\* The normalized keys of the seats some vendor lists as free, in a sector
\* or in its whole-event list.
FreeSeatKeys(results) ==
  UNION { { normalizeSeatKey(results[i].stats.freeSeats[j]) :
              j \in DOMAIN results[i].stats.freeSeats } : i \in DOMAIN results }

AllSectorNames == UNION { ReturnedSectorNames(r) : r \in ScrapeOutcomes }

AllSeatKeys == UNION { FreeSeatKeys(r) : r \in ScrapeOutcomes }

SectorSeatKey(sectorName, normalizedSeatKey) ==
  sectorName \o << ":" >> \o normalizedSeatKey

\* The stored key is the key of that seat in some sector.
IsKeyOfSeat(uniqueKey, normalizedSeatKey) ==
  /\ Len(uniqueKey) > Len(normalizedSeatKey)
  /\ SubSeq(uniqueKey, Len(uniqueKey) - Len(normalizedSeatKey),
            Len(uniqueKey)) = << ":" >> \o normalizedSeatKey

TakenField(rec, vendor) ==
  CASE vendor = "biletyna" -> rec.biletynaTaken
    [] vendor = "ebilet" -> rec.ebiletTaken
    [] vendor = "kupbilecik" -> rec.kupbilecikTaken

\* The step is a stats-refresh pass of event e.
IsPassOf(e) == e \in PassEvents /\ now' = now + 1

(***************************************************************************)
(* Properties of the sequential passes (Spec).                             *)
(***************************************************************************)
\* C1: a sector that no vendor returned in a pass contributes no entry to
\* that pass's inferredSold, whatever the sector is called: no key made of
\* an unreturned sector's name and a seat key is in the map.
C1_UnreturnedSectorContributesNothing ==
  \A e \in Events :
    lastPass[e].returned =>
      \A sectorName \in AllSectorNames
                          \ ReturnedSectorNames(lastPass[e].stats.perSource) :
        \A seatKey \in AllSeatKeys :
          SectorSeatKey(sectorName, seatKey)
            \notin DOMAIN lastPass[e].stats.inferredSold

\* C2: no entry of a pass's inferredSold is attributed to a vendor that is
\* absent from the results of that pass.
C2_NoSaleAttributedToAbsentVendor ==
  \A e \in Events :
    lastPass[e].returned =>
      \A k \in DOMAIN lastPass[e].stats.inferredSold :
        lastPass[e].stats.inferredSold[k]
          \in PresentVendors(lastPass[e].stats.perSource)

\* C3: over two consecutive passes of an event with no reset in between, a
\* seat a vendor reported free in sector S in the first pass, which no
\* vendor lists as free in the second pass while S is returned in it, is in
\* the second pass's inferredSold, attributed to the vendor the history
\* held for it when the second pass began.
C3_FreeThenGoneIsInferredSold ==
  [][ \A e \in Events :
        (IsPassOf(e) /\ lastPass[e].returned /\ historyFiles[e].st = "ok") =>
          LET first == lastPass[e].stats.perSource
              second == lastPass'[e].stats
          IN  \A rep \in SectorReports(first) :
                \A seat \in rep.freeSeats :
                  LET key == UniqueKey(rep.sectorName, seat)
                  IN  ( /\ rep.sectorName
                             \in ReturnedSectorNames(second.perSource)
                        /\ normalizeSeatKey(seat)
                             \notin FreeSeatKeys(second.perSource) )
                      => /\ key \in DOMAIN second.inferredSold
                         /\ key \in DOMAIN loadHistory(historyFiles[e])
                         /\ second.inferredSold[key]
                              = loadHistory(historyFiles[e])[key]
    ]_vars

\* C4: after a pass, every seat in the free list of a vendor present in the
\* results has an entry in the saved history under its normalized key, and
\* that entry is not inferred sold; whole-event reports included.
C4_EveryFreeSeatIsInHistory ==
  \A e \in Events :
    (lastPass[e].returned /\ historyFiles[e].st = "ok") =>
      \A seatKey \in FreeSeatKeys(lastPass[e].stats.perSource) :
        \E k \in DOMAIN loadHistory(historyFiles[e]) :
          /\ IsKeyOfSeat(k, seatKey)
          /\ k \notin DOMAIN lastPass[e].stats.inferredSold

\* C5: a pass never removes a key from the persisted history of its event:
\* every key stored before the pass is stored after it, and the vendor of a
\* key changes only when the seat is reported free in the pass.
C5_HistoryNeverLosesAKey ==
  [][ \A e \in Events :
        IsPassOf(e) =>
          LET before == loadHistory(historyFiles[e])
              after == loadHistory(historyFiles'[e])
              reports == SectorReports(lastPass'[e].stats.perSource)
          IN  \A k \in DOMAIN before :
                /\ k \in DOMAIN after
                /\ after[k] # before[k] =>
                     \E rep \in reports :
                       /\ rep.vendor = after[k]
                       /\ \E seat \in rep.freeSeats :
                            k = UniqueKey(rep.sectorName, seat)
    ]_vars

\* A key stored by an earlier pass is still stored after a pass in which
\* its seat was not reported free.
C5_Witness ==
  \E e \in Events :
    /\ lastPass[e].returned
    /\ historyFiles[e].st = "ok"
    /\ \E k \in DOMAIN historyFiles[e].data :
         /\ k \in DOMAIN lastPass[e].stats.inferredSold
         /\ \A rep \in SectorReports(lastPass[e].stats.perSource) :
              \A seat \in rep.freeSeats :
                k # UniqueKey(rep.sectorName, seat)

\* C7: each vendor's delta in diff is max(0, current - previous): never
\* negative, the difference when the count did not fall, 0 when it fell.
C7_DeltaIsClampedDifference ==
  \A e \in Events :
    (lastPass[e].returned /\ lastPass[e].stats.diff.defined) =>
      \A vendor \in Vendors :
        LET delta == TakenField(lastPass[e].stats.diff, vendor)
            current == TakenOf(lastPass[e].stats.perSource, vendor)
            previous == TakenField(lastPass[e].prevStats.entry, vendor)
        IN  /\ delta >= 0
            /\ current >= previous => delta = current - previous
            /\ current < previous => delta = 0

\* A pass in which a vendor's taken count fell and its delta is 0.
C7_Witness ==
  \E e \in Events :
    /\ lastPass[e].returned
    /\ lastPass[e].stats.diff.defined
    /\ \E vendor \in Vendors :
         /\ TakenOf(lastPass[e].stats.perSource, vendor)
              < TakenField(lastPass[e].prevStats.entry, vendor)
         /\ TakenField(lastPass[e].stats.diff, vendor) = 0

C6_BothPassesAreInHistory ==
  \A r1, r2 \in Requests :
    ( /\ r1 # r2
      /\ reqs[r1].pc = "done"
      /\ reqs[r2].pc = "done"
      /\ reqs[r1].event = reqs[r2].event ) =>
        \A rep \in SectorReports(reqs[r1].results) :
          \A seat \in rep.freeSeats :
            UniqueKey(rep.sectorName, seat)
              \in DOMAIN loadHistory(historyFiles[reqs[r1].event])

C10_LiveSaleBeatsFreeOverride ==
  ( /\ mergedColor # Pending
    /\ liveColor \in TakenColors
    /\ userOverride \in FreeColors ) =>
      mergedColor = liveColor

\* A live sale of one vendor shown under a free override of another.
C10_Witness ==
  /\ mergedColor = SEAT_COLORS.kupbilecik.taken
  /\ liveColor = SEAT_COLORS.kupbilecik.taken
  /\ userOverride = SEAT_COLORS.biletyna.free

\* C11: when the live colour is a free colour or no data and the override
\* is a taken or a free colour of a vendor, the merged colour is the
\* override; with no override, or with the no-data colour as override, the
\* merged colour is the live colour.
C11_OverrideFillsFreeAndNoData ==
  mergedColor # Pending =>
    /\ ( /\ liveColor \in FreeColors \cup { SEAT_COLORS.noData }
         /\ userOverride \in TakenColors \cup FreeColors )
       => mergedColor = userOverride
    /\ userOverride \in { Undefined, SEAT_COLORS.noData }
       => mergedColor = liveColor

\* A free override of one vendor shown over a live free seat of another.
C11_Witness ==
  /\ liveColor = SEAT_COLORS.kupbilecik.free
  /\ userOverride = SEAT_COLORS.ebilet.free
  /\ mergedColor = SEAT_COLORS.ebilet.free

(***************************************************************************)
(* Properties of row labels and seat keys (SpecCodec).                     *)
(***************************************************************************)
\* A non-empty string of digits.
IsArabic(s) == Len(s) > 0 /\ \A i \in DOMAIN s : s[i] \in Range(Digits)

\* The label is not a Roman numeral of the map and ends with neither an
\* Arabic numeral nor a Roman numeral of the map.
NoNumeralPattern(label) ==
  LET t == toUpperCase(trim(label))
  IN  /\ ~InRomanMap(t)
      /\ \A i \in DOMAIN t :
           LET suffix == SubSeq(t, i, Len(t))
           IN  ~IsArabic(suffix) /\ ~InRomanMap(suffix)

\* C12: normalizing a normalized row label changes nothing, and an Arabic
\* numeral string is normalized to itself.
C12_RowNormalizationIsIdempotent ==
  backendCodec.done =>
    /\ normalizeRowName(backendCodec.row) = backendCodec.row
    /\ IsArabic(rowLabel) => backendCodec.row = rowLabel

\* A label that normalization changes, and whose result it leaves alone.
C12_Witness ==
  /\ backendCodec.done
  /\ rowLabel = << "a", " ", "V" >>
  /\ backendCodec.row = << "5" >>

\* C13: a normalized row label is an Arabic numeral string or the trimmed,
\* lower-cased label, and a label that matches no numeral pattern is
\* returned trimmed and lower-cased.
C13_ArabicOrLowerCasedLabel ==
  backendCodec.done =>
    /\ \/ IsArabic(backendCodec.row)
       \/ backendCodec.row = toLowerCase(trim(rowLabel))
    /\ NoNumeralPattern(rowLabel) =>
         backendCodec.row = toLowerCase(trim(rowLabel))

\* The key of a seat is built from a non-empty normalized row and a
\* non-empty seat label, neither containing '-'.
RoundTripCase(codec) ==
  /\ codec.done
  /\ Len(codec.row) > 0
  /\ Len(seatLabel) > 0
  /\ "-" \notin Range(codec.row)
  /\ "-" \notin Range(seatLabel)

RoundTrips(codec) ==
  /\ codec.key = codec.row \o << "-" >> \o seatLabel
  /\ codec.parsed.row = codec.row
  /\ codec.parsed.seat = seatLabel
  /\ codec.normalizedKey = codec.key

\* C14: such a key read back gives the same row and seat label, and
\* normalizeSeatKey leaves the key unchanged, in the stats route and on the
\* page.
C14_SeatKeyRoundTrip ==
  /\ RoundTripCase(backendCodec) => RoundTrips(backendCodec)
  /\ RoundTripCase(pageCodec) => RoundTrips(pageCodec)

\* The key "5-V" of row "V", seat "V", unchanged by both normalizers.
C14_Witness ==
  /\ RoundTripCase(backendCodec)
  /\ RoundTripCase(pageCodec)
  /\ rowLabel = << "V" >>
  /\ seatLabel = << "V" >>
  /\ backendCodec.normalizedKey = << "5", "-", "V" >>
  /\ pageCodec.normalizedKey = << "5", "-", "V" >>

(***************************************************************************)
(* Properties of sector alignment (SpecAlign).                             *)
(***************************************************************************)
RowCount(rows) == Cardinality(DOMAIN rows)

\* The row counts differ by more than 30% of the larger one.
GapOver30Percent(a, b) == 10 * Abs(a - b) > 3 * Max2(a, b)

\* The canonical sectors of that name.
CanonicalNamed(sectorName) ==
  { j \in DOMAIN canonicalSectors :
      canonicalSectors[j].sectorName = sectorName }

\* The names claimed once vendor sector i has been processed.
ClaimedAfter(i) ==
  IF i < Len(alignment) THEN alignment[i + 1].claimedBefore
  ELSE matchedKbSectors

\* The canonical sectors the match of vendor sector i chooses among: not
\* claimed before, row counts within 30%.
Candidates(i) ==
  { j \in DOMAIN canonicalSectors :
      /\ canonicalSectors[j].sectorName \notin alignment[i].claimedBefore
      /\ ~GapOver30Percent(RowCount(vendorSectors[i].rows),
                           RowCount(canonicalSectors[j].rows)) }

ScoreOf(i, j) == SectorScore(vendorSectors[i].rows, canonicalSectors[j])

\* The earliest candidate of the highest score.
IsBest(i, j) ==
  /\ j \in Candidates(i)
  /\ \A k \in Candidates(i) :
       /\ ~ScoreGreater(ScoreOf(i, k), ScoreOf(i, j))
       /\ k < j => ScoreGreater(ScoreOf(i, j), ScoreOf(i, k))

\* C15: a vendor sector is never matched to a canonical sector whose row
\* count differs from its own by more than 30% of the larger count.
C15_NoMatchAcrossRowCountGap ==
  \A i \in DOMAIN alignment :
    alignment[i].matched =>
      \A j \in CanonicalNamed(alignment[i].sectorName) :
        ~GapOver30Percent(RowCount(vendorSectors[i].rows),
                          RowCount(canonicalSectors[j].rows))

\* A vendor sector left unmatched although an unclaimed canonical sector
\* has its seat total and all its row labels, the row counts being 2 and 3.
C15_Witness ==
  \E i \in DOMAIN alignment :
    /\ ~alignment[i].matched
    /\ \E j \in DOMAIN canonicalSectors :
         /\ canonicalSectors[j].sectorName \notin alignment[i].claimedBefore
         /\ canonicalSectors[j].totals.total
              = vendorSectors[i].totals.total
         /\ DOMAIN vendorSectors[i].rows \subseteq DOMAIN canonicalSectors[j].rows
         /\ GapOver30Percent(RowCount(vendorSectors[i].rows),
                             RowCount(canonicalSectors[j].rows))

\* C16: when a canonical sector not yet claimed has the same set of row
\* labels and the same seat total as the vendor sector, its score is 100
\* and the vendor sector is matched.
C16_IdenticalSectorsScore100 ==
  \A i \in DOMAIN alignment :
    \A j \in DOMAIN canonicalSectors :
      ( /\ canonicalSectors[j].sectorName \notin alignment[i].claimedBefore
        /\ DOMAIN canonicalSectors[j].rows = DOMAIN vendorSectors[i].rows
        /\ canonicalSectors[j].totals.total = vendorSectors[i].totals.total )
      => /\ ScoreOf(i, j).num = 100 * ScoreOf(i, j).den
         /\ alignment[i].matched

\* C17: the match is the earliest candidate of the highest score, provided
\* that score is at least 50; otherwise there is no match, nothing is
\* claimed and the sector is labelled "Sektor i".
C17_BestCandidateOrSektorLabel ==
  \A i \in DOMAIN alignment :
    LET accepted == { j \in DOMAIN canonicalSectors :
                        IsBest(i, j) /\ ScoreAtLeast(ScoreOf(i, j), 50) }
    IN  /\ \A j \in accepted :
             /\ alignment[i].matched
             /\ alignment[i].sectorName = canonicalSectors[j].sectorName
             /\ ClaimedAfter(i) = alignment[i].claimedBefore
                                    \cup { canonicalSectors[j].sectorName }
        /\ accepted = {} =>
             /\ ~alignment[i].matched
             /\ alignment[i].sectorName = SektorPrefix \o String(i)
             /\ ClaimedAfter(i) = alignment[i].claimedBefore

\* A vendor sector matched to the second canonical sector, the first one
\* being an unclaimed candidate of lower score.
C17_Witness ==
  \E i \in DOMAIN alignment :
    /\ alignment[i].matched
    /\ Len(canonicalSectors) = 2
    /\ alignment[i].sectorName = canonicalSectors[2].sectorName
    /\ 1 \in Candidates(i)
    /\ ScoreAtLeast(ScoreOf(i, 1), 50)

\* C18: no two sectors of the vendor's report are matched to the same
\* canonical sector.
C18_NoCanonicalSectorMatchedTwice ==
  \A i, k \in DOMAIN alignment :
    (i < k /\ alignment[i].matched /\ alignment[k].matched) =>
      alignment[i].sectorName # alignment[k].sectorName

\* Two vendor sectors of the same rows: the first takes the canonical
\* sector both fit best, the second is matched to the other one.
C18_Witness ==
  /\ Len(alignment) = 2
  /\ vendorSectors[1].rows = vendorSectors[2].rows
  /\ alignment[1].matched
  /\ alignment[2].matched
  /\ alignment[1].sectorName = canonicalSectors[1].sectorName
  /\ ScoreGreater(ScoreOf(2, 1), ScoreOf(2, 2))

(***************************************************************************)
(* Sectors that failed alignment (Spec).                                   *)
(***************************************************************************)
\* The name is a label of the form "Sektor N" given to an unmatched sector.
IsSektorLabel(sectorName) ==
  /\ Len(sectorName) > Len(SektorPrefix)
  /\ SubSeq(sectorName, 1, Len(SektorPrefix)) = SektorPrefix
  /\ IsArabic(SubSeq(sectorName, Len(SektorPrefix) + 1, Len(sectorName)))

\* The history keys the free seats of a sector report are stored under.
ReportKeys(report) ==
  { UniqueKey(report.sectorName, seatKey) :
      seatKey \in report.freeSeats }

\* C19: in a pass, a sector labelled "Sektor N" of one vendor shares neither
\* its name nor a history key with a sector another vendor returned.
C19_UnmatchedSectorIsNotCrossReferenced ==
  \A e \in Events :
    lastPass[e].returned =>
      \A s, t \in SectorReports(lastPass[e].stats.perSource) :
        (IsSektorLabel(s.sectorName) /\ s.vendor # t.vendor) =>
          /\ s.sectorName # t.sectorName
          /\ ReportKeys(s) \cap ReportKeys(t) = {}

(***************************************************************************)
(* The seat universe of a rendered sector (SpecSeatMap).                   *)
(***************************************************************************)
\* The normalized keys of the sector's own free and taken seats.
OwnSeatKeys(kbSector) ==
  { pageNormalizeSeatKey(seatKey) :
      seatKey \in Range(kbSector.freeSeats) \cup Range(kbSector.takenSeats) }

\* C20: the seats of a rendered KupBilecik sector - those with a status,
\* those laid out in rows and those coloured - are exactly the normalized
\* keys of the sector's own free and taken seats.
C20_SeatUniverseIsTheCanonicalSectors ==
  seatMap.done =>
    LET own == OwnSeatKeys(seatMapInput.kbSector)
    IN  /\ DOMAIN seatMap.map.seatStatuses = own
        /\ Range(MapSeatKeys(seatMap.map.seatsPerRow)) = own
        /\ DOMAIN seatMap.map.seatColors = own

\* A rendered sector whose Biletyna and eBilet sectors of the same name
\* list seats it lacks (5-9 and 5-7), one of them also inferred sold.
C20_Witness ==
  /\ seatMap.done
  /\ OverlaySeats(seatMapInput.perSource.biletyna, SectorA)
       \ OwnSeatKeys(seatMapInput.kbSector) # {}
  /\ OverlaySeats(seatMapInput.perSource.ebilet, SectorA)
       \ OwnSeatKeys(seatMapInput.kbSector) # {}
  /\ SectorSeatKeyOf(<<"5">>, <<"9">>) \in DOMAIN seatMapInput.inferredSold

(***************************************************************************)
(* The status a rendered seat resolves to (SpecSeatMap).                   *)
(***************************************************************************)
\* The sector of a vendor's report aligned with the rendered sector: the
\* sector itself for KupBilecik, the first sector of its name otherwise.
AlignedReport(vendor) ==
  IF vendor = "kupbilecik"
  THEN [ found |-> TRUE, sector |-> seatMapInput.kbSector ]
  ELSE IF ~seatMapInput.perSource[vendor].hasSectors
  THEN [ found |-> FALSE ]
  ELSE FindSector(seatMapInput.perSource[vendor].sectors,
                  seatMapInput.kbSector.sectorName)

ListsSeat(vendor, seatKey, free) ==
  /\ AlignedReport(vendor).found
  /\ seatKey \in NormalizedKeys(IF free
                                THEN AlignedReport(vendor).sector.freeSeats
                                ELSE AlignedReport(vendor).sector.takenSeats)

\* No vendor lists the seat both free and taken.
ConsistentlyListed(seatKey) ==
  \A vendor \in Vendors :
    ~(ListsSeat(vendor, seatKey, TRUE) /\ ListsSeat(vendor, seatKey, FALSE))

C22_TakenOnBothResolvesTaken ==
  seatMap.done =>
    \A seatKey \in DOMAIN seatMap.map.seatColors :
      ( /\ Cardinality({ vendor \in Vendors :
                           ListsSeat(vendor, seatKey, FALSE) }) >= 2
        /\ \A vendor \in Vendors : ~ListsSeat(vendor, seatKey, TRUE)
        /\ SectorA \o << ":" >> \o seatKey
             \notin DOMAIN seatMapInput.inferredSold )
      => seatMap.map.seatColors[seatKey] \in TakenColors

(***************************************************************************)
(* Cache resets and saved overrides (SpecReset).                           *)
(***************************************************************************)
\* The step clears the seat history or a remembered URL of event e, as a
\* cache reset of e does.
IsResetOf(e) ==
  /\ historyFiles'[e] = AbsentFile
  /\ \/ historyFiles[e] # AbsentFile
     \/ \E source \in Vendors :
          << e, source >> \in urlCache /\ << e, source >> \notin urlCache'

\* C23: a cache reset of an event leaves it without remembered URLs and
\* without seat history and leaves every saved override map as it was; a
\* step that changes an event's override map changes neither the cache nor
\* a seat history, and leaves the map removed or replaced by a posted one.
C23_ResetKeepsOverrides ==
  [][ \A e \in Events :
        /\ IsResetOf(e) =>
             /\ \A source \in Vendors : << e, source >> \notin urlCache'
             /\ historyFiles'[e] = AbsentFile
             /\ overridesFiles' = overridesFiles
        /\ overridesFiles'[e] # overridesFiles[e] =>
             /\ urlCache' = urlCache
             /\ historyFiles' = historyFiles
             /\ \/ overridesFiles'[e] = AbsentFile
                \/ \E body \in OverrideBodies :
                     /\ body.valid
                     /\ overridesFiles'[e].st = "ok"
                     /\ overridesFiles'[e].data.overrides = body.overrides
    ]_vars

\* Event e1 after its reset, its overrides still saved, while e2 keeps its
\* history and a remembered URL.
C23_Witness ==
  /\ historyFiles["e1"] = AbsentFile
  /\ \A source \in Vendors : << "e1", source >> \notin urlCache
  /\ overridesFiles["e1"].st = "ok"
  /\ DOMAIN overridesFiles["e1"].data.overrides # {}
  /\ historyFiles["e2"] # AbsentFile
  /\ << "e2", "ebilet" >> \in urlCache

(***************************************************************************)
(* Unreadable stores (Spec).                                               *)
(***************************************************************************)
\* C24: a pass that finds the seat history or the stats file absent or
\* unreadable completes, takes the record for empty (no inferred sale from
\* an unreadable history, no diff from an unreadable snapshot) and leaves
\* both stores readable, holding its history and its snapshot.
C24_FreshStartFromUnreadableStores ==
  [][ \A e \in Events :
        (IsPassOf(e) /\ (historyFiles[e].st # "ok" \/ statsFile.st # "ok")) =>
          /\ lastPass'[e].returned
          /\ historyFiles[e].st # "ok" =>
               DOMAIN lastPass'[e].stats.inferredSold = {}
          /\ statsFile.st # "ok" => ~lastPass'[e].stats.diff.defined
          /\ historyFiles'[e].st = "ok"
          /\ statsFile'.st = "ok"
          /\ e \in DOMAIN statsFile'.data
          /\ statsFile'.data[e].timestamp = now'
    ]_vars

\* C25: a vendor without a report in a pass is unknown to the sales diff.
\* When the pass before this one had no report of the vendor, the snapshot
\* that pass compared itself with held taken count n for the vendor, and
\* this pass reports n again, this pass's delta for the vendor is 0.
C25_AbsentVendorIsUnknownToDiff ==
  [][ \A e \in Events, vendor \in Vendors :
        ( /\ IsPassOf(e)
          /\ lastPass[e].returned
          /\ lastPass[e].prevStats.found
          /\ vendor \notin PresentVendors(lastPass[e].stats.perSource)
          /\ vendor \in PresentVendors(lastPass'[e].stats.perSource)
          /\ TakenOf(lastPass'[e].stats.perSource, vendor)
               = TakenField(lastPass[e].prevStats.entry, vendor) ) =>
          /\ lastPass'[e].stats.diff.defined
          /\ TakenField(lastPass'[e].stats.diff, vendor) = 0
    ]_vars

(***************************************************************************)
(* The two seat-key normalizations compared (SpecCodec).                   *)
(***************************************************************************)
\* C26: the stats route and the page normalize every raw seat key to the
\* same string, so the key under which the route stores an inferred sale is
\* the key the page looks up.
C26_BackendAndPageKeysAgree ==
  (backendCodec.done /\ pageCodec.done) =>
    backendCodec.normalizedKey = pageCodec.normalizedKey

(***************************************************************************)
(* The vendor a free seat is stored under (Spec).                          *)
(***************************************************************************)
HistoryOrder == << "kupbilecik", "biletyna", "ebilet" >>

HistoryRank(vendor) == CHOOSE i \in DOMAIN HistoryOrder : HistoryOrder[i] = vendor

\* The vendors whose sector reports list the key as free.
FreeReporters(results, uniqueKey) ==
  { s.vendor : s \in { t \in SectorReports(results) :
                         uniqueKey \in ReportKeys(t) } }

LastReporter(results, uniqueKey) ==
  CHOOSE v \in FreeReporters(results, uniqueKey) :
    \A w \in FreeReporters(results, uniqueKey) :
      HistoryRank(w) <= HistoryRank(v)

ReportedFreeKeys(results) ==
  UNION { ReportKeys(s) : s \in SectorReports(results) }

\* C27: after a pass the history holds, for every seat free in some sector
\* report of the pass, the last vendor in the order kupbilecik, biletyna,
\* ebilet whose sector report lists it free, whichever scrape task finished
\* first.
C27_StoredVendorIsLastInFixedOrder ==
  [][ \A e \in Events :
        IsPassOf(e) =>
          /\ historyFiles'[e].st = "ok"
          /\ \A k \in ReportedFreeKeys(lastPass'[e].stats.perSource) :
               /\ k \in DOMAIN historyFiles'[e].data
               /\ historyFiles'[e].data[k]
                    = LastReporter(lastPass'[e].stats.perSource, k)
    ]_vars

\* A pass whose Biletyna task assigned before the KupBilecik task, with a
\* seat free in the sector reports of two vendors.
C27_Witness ==
  \E e \in Events :
    /\ lastPass[e].returned
    /\ historyFiles[e].st = "ok"
    /\ \E k \in ReportedFreeKeys(lastPass[e].stats.perSource) :
         /\ Cardinality(FreeReporters(lastPass[e].stats.perSource, k)) > 1
         /\ k \in DOMAIN historyFiles[e].data
         /\ historyFiles[e].data[k]
              = LastReporter(lastPass[e].stats.perSource, k)
    /\ Len(lastPass[e].stats.perSource) > 1
    /\ lastPass[e].stats.perSource[1].source = "biletyna"
    /\ lastPass[e].stats.perSource[2].source = "kupbilecik"

(***************************************************************************)
(* The vendor of an inferred sale and the vendor shown free (Spec).        *)
(***************************************************************************)
\* stats.perSource[portal] as the page's overlay reads it.
PagePerSource(results) ==
  [ portal \in { "biletyna", "ebilet" } |->
      IF HasResult(results, portal) THEN ResultOf(results, portal)
      ELSE NoSectors ]

\* hasMultipleSectors and getKupbilecikSectors: the KupBilecik sectors of a
\* pass, which the page renders one by one when there are several.
RenderedSectors(results) ==
  IF /\ HasResult(results, "kupbilecik")
     /\ ResultOf(results, "kupbilecik").hasSectors
     /\ Len(ResultOf(results, "kupbilecik").sectors) > 1
  THEN ResultOf(results, "kupbilecik").sectors
  ELSE << >>

\* The vendors under which the page shows the seat of this history key free
\* for the results and the inferred sales of a pass.
ShownFreeUnder(stats, uniqueKey) ==
  LET perSource == PagePerSource(stats.perSource)
      sectors == RenderedSectors(stats.perSource)
  IN  { vendor \in Vendors :
          \E i \in DOMAIN sectors :
            LET seatStatuses == SeatStatuses(sectors[i], perSource)
            IN  \E seatKey \in DOMAIN seatStatuses :
                  /\ sectors[i].sectorName \o << ":" >> \o seatKey = uniqueKey
                  /\ SeatPaint(sectors[i].sectorName, seatKey, seatStatuses,
                               stats.inferredSold).stat
                       = << vendor, "Free" >> }

\* C28: a seat inferred sold in a pass is attributed to the vendor under
\* which the page showed it free in the pass before, when it was free there.
C28_SaleGoesToTheVendorShownFree ==
  [][ \A e \in Events :
        (IsPassOf(e) /\ lastPass[e].returned) =>
          \A k \in DOMAIN lastPass'[e].stats.inferredSold :
            \A vendor \in ShownFreeUnder(lastPass[e].stats, k) :
              lastPass'[e].stats.inferredSold[k] = vendor
    ]_vars

(***************************************************************************)
(* The sector names of one vendor's report (SpecAlign).                    *)
(***************************************************************************)
\* C29: the sectors of one vendor's report get pairwise distinct names,
\* whether a name is the matched KupBilecik sector's or the label
\* "Sektor N", whatever the KupBilecik sectors are called.
C29_SectorNamesOfAVendorAreDistinct ==
  \A i, k \in DOMAIN alignment :
    i < k => alignment[i].sectorName # alignment[k].sectorName

(***************************************************************************)
(* Snapshots of two events refreshed at once (SpecConcurrent).             *)
(***************************************************************************)
\* C30: when the POST requests of two different events have both completed
\* and the stats file is readable, it holds the snapshot of each of the two
\* passes.
C30_BothEventsKeepTheirSnapshot ==
  \A r1, r2 \in Requests :
    ( /\ reqs[r1].pc = "done"
      /\ reqs[r2].pc = "done"
      /\ reqs[r1].event # reqs[r2].event
      /\ statsFile.st # "corrupt" ) =>
        /\ statsFile.st = "ok"
        /\ reqs[r1].event \in DOMAIN statsFile.data
        /\ \A vendor \in Vendors :
             TakenField(statsFile.data[reqs[r1].event], vendor)
               = TakenOf(reqs[r1].results, vendor)

=============================================================================
